---- MODULE Spec2Model ----
(***************************************************************************)
(* Model of the real-time KPI calculator (src/src/services/kpiCalculator.js),*)
(* of the schedule store with its calendar grid (src/unnamed/part_002), of  *)
(* the employee view (src/src/views/EmployeeView.vue) and of the benchmark  *)
(* upload view (src/src/views/UploadBenchmark.vue).                         *)
(*                                                                         *)
(* Conventions                                                             *)
(*  - A JavaScript Date is a record [day, ms]: the number of local days    *)
(*    since 1970-01-01 and the milliseconds into that local day.  Every    *)
(*    Date the calculator builds is at local midnight except the value of  *)
(*    endOfWeek, which is 23:59:59.999 of a Sunday.                        *)
(*  - An ISO date string "YYYY-MM-DD" is the record [y, m, d] of its three *)
(*    fields; a time string "HH:MM" is the record [h, m]; NoTime is an     *)
(*    absent (null / undefined / empty) time.                              *)
(*  - A JavaScript number is an exact rational [n, d] in lowest terms with *)
(*    d > 0 (floating-point rounding error is not modelled).               *)
(***************************************************************************)
EXTENDS Integers, Sequences, FiniteSets, TLC

VARIABLES
    company,        \* [sunday_is_workday]
    employee,       \* [max_hours_per_week, absences]
    scheduleData,   \* sequence of [date, shift]
    year,           \* target year
    month,          \* target month 1..12
    ret,            \* the last call of a method and its result
    wd,             \* the frame of a running loop of the calculator
    now,            \* the system clock, a Date (read by isToday and new Date())
    store,          \* the schedule store: [scheduleData, currentDate]
    view,           \* the employee view: its refs and its requests in flight
    upload          \* the benchmark upload view: its refs, timer and request

vars == <<company, employee, scheduleData, year, month, ret, wd, now, store, view, upload>>

-----------------------------------------------------------------------------
(* Bounds of the model *)

MaxEntries == 2

MaxAbsences == 2

(* Target years: 2021 (February is exactly four Monday weeks), 2024 (leap), *)
(* 2025 (the year of the documented examples).                              *)
Years == {2021, 2024, 2025}

Months == 1..12

-----------------------------------------------------------------------------
(* Exact rational numbers *)

RECURSIVE GCD(_, _)
GCD(a, b) == IF b = 0 THEN a ELSE GCD(b, a % b)

Abs(x) == IF x < 0 THEN -x ELSE x

Rat(n, d) ==
    LET s == IF d < 0 THEN -1 ELSE 1
        g == GCD(Abs(n), Abs(d))
    IN  [n |-> (s * n) \div g, d |-> (s * d) \div g]

Zero == Rat(0, 1)

RatOfInt(i) == Rat(i, 1)

RatAdd(a, b) == Rat(a.n * b.d + b.n * a.d, a.d * b.d)

RatMul(a, b) == Rat(a.n * b.n, a.d * b.d)

RatDiv(a, b) == Rat(a.n * b.d, a.d * b.n)

RatLE(a, b) == a.n * b.d <= b.n * a.d

RatLT(a, b) == a.n * b.d < b.n * a.d

(* Math.round: the integer nearest to x, halves rounded towards +infinity *)
MathRound(x) == (2 * x.n + x.d) \div (2 * x.d)

-----------------------------------------------------------------------------
(* JavaScript Date *)

IsLeapYear(y) == (y % 4 = 0 /\ y % 100 # 0) \/ y % 400 = 0

DaysInMonth(y, m) ==
    IF m = 2 THEN (IF IsLeapYear(y) THEN 29 ELSE 28)
    ELSE IF m \in {4, 6, 9, 11} THEN 30 ELSE 31

RECURSIVE DaysBeforeMonth(_, _)
DaysBeforeMonth(y, m) ==
    IF m = 1 THEN 0 ELSE DaysBeforeMonth(y, m - 1) + DaysInMonth(y, m - 1)

LeapYearsBefore(y) == (y - 1) \div 4 - (y - 1) \div 100 + (y - 1) \div 400

(* Days from 1970-01-01 to the first day of year y *)
DaysBeforeYear(y) == 365 * (y - 1970) + LeapYearsBefore(y) - LeapYearsBefore(1970)

(* new Date(y, monthIndex, d): monthIndex 0..12 and d >= 0 overflow into    *)
(* the neighbouring month or year, as the Date constructor normalises them  *)
NewDate(y, monthIndex, d) ==
    LET yy == y + monthIndex \div 12
        mm == (monthIndex % 12) + 1
    IN  [day |-> DaysBeforeYear(yy) + DaysBeforeMonth(yy, mm) + d - 1, ms |-> 0]

(* The calendar fields of a day number (civil-from-days) *)
Civil(n) ==
    LET z   == n + 719468
        era == z \div 146097
        doe == z - era * 146097
        yoe == (doe - doe \div 1460 + doe \div 36524 - doe \div 146096) \div 365
        doy == doe - (365 * yoe + yoe \div 4 - yoe \div 100)
        mp  == (5 * doy + 2) \div 153
        d   == doy - (153 * mp + 2) \div 5 + 1
        m   == IF mp < 10 THEN mp + 3 ELSE mp - 9
        y   == yoe + era * 400 + (IF m <= 2 THEN 1 ELSE 0)
    IN  [y |-> y, m |-> m, d |-> d]

getFullYear(date) == Civil(date.day).y

(* getMonth is zero-based *)
getMonth(date) == Civil(date.day).m - 1

getDate(date) == Civil(date.day).d

(* getDay: 0 = Sunday .. 6 = Saturday; 1970-01-01 was a Thursday *)
getDay(date) == (date.day + 4) % 7

(* date.setDate(n): the n-th day counted from the first of date's month *)
setDate(date, n) == [date EXCEPT !.day = date.day - getDate(date) + n]

(* new Date(NaN), the Invalid Date: its fields are NaN, and NaN is equal to, *)
(* less than and greater than nothing                                       *)
InvalidDate == [invalid |-> TRUE]

isValid(date) == date # InvalidDate

(* a <= b of two Dates (by their time values) *)
DateLE(a, b) ==
    /\ isValid(a) /\ isValid(b)
    /\ a.day < b.day \/ (a.day = b.day /\ a.ms <= b.ms)

(* date-fns parseISO of "YYYY-MM-DD": local midnight of that date, or the   *)
(* Invalid Date when the month or the day is out of range                   *)
parseISO(iso) ==
    IF iso.m \in 1..12 /\ iso.d \in 1..DaysInMonth(iso.y, iso.m)
    THEN NewDate(iso.y, iso.m - 1, iso.d)
    ELSE InvalidDate

(* Faulty variant: the weekStartsOn option left out (weeks from Sunday) *)
startOfWeekFromSunday(date) == [day |-> date.day - getDay(date), ms |-> 0]

(* date-fns startOfWeek(date, {weekStartsOn: 1}): Monday 00:00:00.000 *)
startOfWeek(date) == [day |-> date.day - ((getDay(date) + 6) % 7), ms |-> 0]

(* Faulty variant: the weekStartsOn option left out (weeks end on Saturday) *)
endOfWeekOnSaturday(date) == [day |-> date.day + (6 - getDay(date)), ms |-> 86399999]

(* date-fns endOfWeek(date, {weekStartsOn: 1}): Sunday 23:59:59.999 *)
endOfWeek(date) == [day |-> date.day + ((7 - getDay(date)) % 7), ms |-> 86399999]

-----------------------------------------------------------------------------
(* WorkdayClassifier *)

holidays ==
    { [month |-> 1, day |-> 1], [month |-> 5, day |-> 1], [month |-> 10, day |-> 3],
      [month |-> 12, day |-> 25], [month |-> 12, day |-> 26] }

(* Faulty variant: the zero-based getMonth compared with the table's month *)
isHolidayZeroBasedMonth(date) ==
    LET m == getMonth(date)
        d == getDate(date)
    IN  \E holiday \in holidays : holiday.month = m /\ holiday.day = d

isHoliday(date) ==
    LET m == getMonth(date) + 1
        d == getDate(date)
    IN  \E holiday \in holidays : holiday.month = m /\ holiday.day = d

(* constructor: this.sundaysOff = !company.sunday_is_workday *)
sundaysOff(c) == ~c.sunday_is_workday

(* The frame of getWorkingDaysInMonth before its loop.  visited and counted *)
(* record the dates the loop has passed and those it has counted.           *)
WdEnter(y, m) ==
    [ pc          |-> "loop",
      currentDate |-> NewDate(y, m - 1, 1),
      endDate     |-> NewDate(y, m, 0),
      workingDays |-> 0,
      visited     |-> << >>,
      counted     |-> {} ]

(* Faulty variant: currentDate < endDate, the last day left out *)
WdCondStrict(f) == f.currentDate.day < f.endDate.day

WdCond(f) == DateLE(f.currentDate, f.endDate)

(* One iteration of the while loop *)
WdIterate(f, off) ==
    LET dayOfWeek == getDay(f.currentDate)
        next      == setDate(f.currentDate, getDate(f.currentDate) + 1)
        skip      == [f EXCEPT !.currentDate = next,
                               !.visited = Append(@, f.currentDate.day)]
    IN  IF off /\ dayOfWeek = 0 THEN skip
        ELSE IF dayOfWeek = 6 THEN skip
        ELSE IF isHoliday(f.currentDate) THEN skip
        ELSE [skip EXCEPT !.workingDays = @ + 1,
                          !.counted = @ \cup {f.currentDate.day}]

RECURSIVE WdRun(_, _)
WdRun(f, off) ==
    IF WdCond(f) THEN WdRun(WdIterate(f, off), off) ELSE [f EXCEPT !.pc = "return"]

(* getWorkingDaysInMonth is a function of (year, month, this.sundaysOff)    *)
(* alone.  Its values for the target years, each the result of running the *)
(* loop, are computed once (the comparison makes TLC build the table).     *)
workingDaysTable ==
    LET run == [k \in Years \X Months \X BOOLEAN |->
                  WdRun(WdEnter(k[1], k[2]), k[3]).workingDays]
    IN  CHOOSE t \in {run} : t = run

getWorkingDaysInMonth(y, m, off) == workingDaysTable[<<y, m, off>>]

-----------------------------------------------------------------------------
(* KPICalculator: the methods, each evaluated as its code evaluates it.     *)
(* co is this.company.                                                      *)

(* null / undefined *)
Null == [null |-> TRUE]

(* null / undefined where a list is expected (TLC compares a list only with *)
(* a list: no list of dates or entries equals this one)                     *)
NullList == << Null >>

NoTime == Null

(* parseISO(`2000-01-01T${time}`) as milliseconds after 2000-01-01T00:00 *)
parseTime(time) == time.h * 3600000 + time.m * 60000

(* Faulty variant: 24 hours added to a difference of 0 as well *)
calculateShiftHoursWrapAtZero(shift) ==
    IF shift.start_time = NoTime \/ shift.end_time = NoTime THEN Zero
    ELSE LET hours == Rat(parseTime(shift.end_time) - parseTime(shift.start_time),
                          1000 * 60 * 60)
         IN  IF RatLE(hours, Zero) THEN RatAdd(hours, RatOfInt(24)) ELSE hours

(* Faulty variant: only start_time is tested, an absent end_time read as    *)
(* midnight                                                                 *)
calculateShiftHoursOpenEnd(shift) ==
    IF shift.start_time = NoTime THEN Zero
    ELSE LET end   == IF shift.end_time = NoTime THEN 0 ELSE parseTime(shift.end_time)
             hours == Rat(end - parseTime(shift.start_time), 1000 * 60 * 60)
         IN  IF RatLT(hours, Zero) THEN RatAdd(hours, RatOfInt(24)) ELSE hours

calculateShiftHours(shift) ==
    IF shift.start_time = NoTime \/ shift.end_time = NoTime THEN Zero
    ELSE LET start == parseTime(shift.start_time)
             end   == parseTime(shift.end_time)
             hours == Rat(end - start, 1000 * 60 * 60)
         IN  IF RatLT(hours, Zero) THEN RatAdd(hours, RatOfInt(24)) ELSE hours

(* Faulty variant: reduce without its initial value, so that the first     *)
(* entry is the accumulator and its hours are never added                  *)
RECURSIVE TotalHoursWithoutFirst(_)
TotalHoursWithoutFirst(data) ==
    IF Len(data) <= 1 THEN Zero
    ELSE RatAdd(TotalHoursWithoutFirst(SubSeq(data, 1, Len(data) - 1)),
                calculateShiftHours(data[Len(data)].shift))

(* scheduleData.reduce((total, entry) => total + shiftHours, 0) *)
RECURSIVE calculateTotalHours(_)
calculateTotalHours(data) ==
    IF data = << >> THEN Zero
    ELSE RatAdd(calculateTotalHours(SubSeq(data, 1, Len(data) - 1)),
                calculateShiftHours(data[Len(data)].shift))

(* Faulty variant: Math.floor in place of Math.round *)
roundDown(num, decimals) ==
    LET p == IF decimals = 3 THEN 1000 ELSE 1
        x == RatMul(num, RatOfInt(p))
    IN  Rat(x.n \div x.d, p)

(* round(num, decimals) *)
round(num, decimals) ==
    LET p == IF decimals = 3 THEN 1000 ELSE 1
    IN  Rat(MathRound(RatMul(num, RatOfInt(p))), p)

NoAbsences == NullList

(* absences.filter(d => year and month of parseISO(d) match).length *)
RECURSIVE FilterInMonthLength(_, _, _)
FilterInMonthLength(absences, y, m) ==
    IF absences = << >> THEN 0
    ELSE LET date == parseISO(Head(absences))
         IN  FilterInMonthLength(Tail(absences), y, m)
               + (IF isValid(date) /\ getFullYear(date) = y /\ getMonth(date) + 1 = m
                  THEN 1 ELSE 0)

(* Faulty variant: the zero-based getMonth compared with the month asked for *)
getAbsencesInMonthZeroBased(emp, y, m) ==
    IF emp.absences = NoAbsences THEN 0
    ELSE FilterInMonthLength(emp.absences, y, m + 1)

getAbsencesInMonth(emp, y, m) ==
    IF emp.absences = NoAbsences THEN 0
    ELSE FilterInMonthLength(emp.absences, y, m)

(* absences.filter(d => year of parseISO(d) matches).length *)
RECURSIVE FilterInYearLength(_, _)
FilterInYearLength(absences, y) ==
    IF absences = << >> THEN 0
    ELSE LET date == parseISO(Head(absences))
         IN  FilterInYearLength(Tail(absences), y)
               + (IF isValid(date) /\ getFullYear(date) = y THEN 1 ELSE 0)

getAbsencesInYear(emp, y) ==
    IF emp.absences = NoAbsences THEN 0
    ELSE FilterInYearLength(emp.absences, y)

(* The month loop of calculateExpectedYearlyHours: the working days of the  *)
(* twelve months of year y, added up                                        *)
RECURSIVE totalWorkingDaysUpTo(_, _, _)
totalWorkingDaysUpTo(y, m, off) ==
    IF m = 0 THEN 0
    ELSE totalWorkingDaysUpTo(y, m - 1, off) + getWorkingDaysInMonth(y, m, off)

(* Faulty variant: the month loop stops before December *)
totalWorkingDaysToNovember(y, off) == totalWorkingDaysUpTo(y, 11, off)

totalWorkingDays(y, off) == totalWorkingDaysUpTo(y, 12, off)

(* Faulty variant: the absences are not subtracted *)
calculateExpectedMonthlyHoursNoAbsences(co, emp, y, m) ==
    LET weeklyHours   == RatOfInt(emp.max_hours_per_week)
        shiftsPerWeek == RatDiv(weeklyHours, RatOfInt(8))
        workingDays   == getWorkingDaysInMonth(y, m, sundaysOff(co))
    IN  RatMul(RatMul(RatOfInt(workingDays), RatDiv(shiftsPerWeek, RatOfInt(7))),
               RatOfInt(8))

(* Faulty variant: the shifts of a week are spread over five days *)
calculateExpectedMonthlyHoursFiveDayWeek(co, emp, y, m) ==
    LET weeklyHours          == RatOfInt(emp.max_hours_per_week)
        shiftsPerWeek        == RatDiv(weeklyHours, RatOfInt(8))
        availableWorkingDays == getWorkingDaysInMonth(y, m, sundaysOff(co))
                                  - getAbsencesInMonth(emp, y, m)
    IN  RatMul(RatMul(RatOfInt(availableWorkingDays),
                      RatDiv(shiftsPerWeek, RatOfInt(5))),
               RatOfInt(8))

calculateExpectedMonthlyHours(co, emp, y, m) ==
    LET weeklyHours          == RatOfInt(emp.max_hours_per_week)
        shiftsPerWeek        == RatDiv(weeklyHours, RatOfInt(8))
        workingDays          == getWorkingDaysInMonth(y, m, sundaysOff(co))
        absencesInMonth      == getAbsencesInMonth(emp, y, m)
        availableWorkingDays == workingDays - absencesInMonth
    IN  RatMul(RatMul(RatOfInt(availableWorkingDays),
                      RatDiv(shiftsPerWeek, RatOfInt(7))),
               RatOfInt(8))

calculateExpectedYearlyHours(co, emp, y) ==
    LET weeklyHours          == RatOfInt(emp.max_hours_per_week)
        totalAbsences        == getAbsencesInYear(emp, y)
        availableWorkingDays == totalWorkingDays(y, sundaysOff(co)) - totalAbsences
    IN  RatMul(RatOfInt(availableWorkingDays), RatDiv(weeklyHours, RatOfInt(7)))

(* Faulty variant: only a denominator of exactly 0 is guarded *)
calculateUtilizationPercentageZeroOnly(actualHours, expectedHours) ==
    IF expectedHours = Zero THEN Zero
    ELSE RatMul(RatDiv(actualHours, expectedHours), RatOfInt(100))

calculateUtilizationPercentage(actualHours, expectedHours) ==
    IF RatLE(expectedHours, Zero) THEN Zero
    ELSE RatMul(RatDiv(actualHours, expectedHours), RatOfInt(100))

(* The hours of the entries of data dated within [from, to] *)
RECURSIVE WeekHours(_, _, _)
WeekHours(data, from, to) ==
    IF data = << >> THEN Zero
    ELSE LET entry     == data[Len(data)]
             entryDate == parseISO(entry.date)
             rest      == WeekHours(SubSeq(data, 1, Len(data) - 1), from, to)
         IN  IF DateLE(from, entryDate) /\ DateLE(entryDate, to)
             THEN RatAdd(rest, calculateShiftHours(entry.shift))
             ELSE rest

(* The while loop of calculateWeeklyWorkload from currentWeek on *)
RECURSIVE WeeklyLoop(_, _, _, _)
WeeklyLoop(data, currentWeek, lastDay, weeklyWorkload) ==
    IF DateLE(currentWeek, lastDay)
    THEN LET weekEnd   == endOfWeek(currentWeek)
             weekHours == WeekHours(data, currentWeek, weekEnd)
         IN  WeeklyLoop(data, setDate(currentWeek, getDate(currentWeek) + 7), lastDay,
                        Append(weeklyWorkload, round(weekHours, 3)))
    ELSE weeklyWorkload

calculateWeeklyWorkload(data, y, m) ==
    LET firstDay == NewDate(y, m - 1, 1)
        lastDay  == NewDate(y, m, 0)
    IN  WeeklyLoop(data, startOfWeek(firstDay), lastDay, << >>)

(* Faulty variant: the year of the entry is not compared *)
RECURSIVE BreakdownLoopAnyYear(_, _)
BreakdownLoopAnyYear(data, y) ==
    IF data = << >>
    THEN [hours |-> [i \in 0..11 |-> Zero], shifts |-> [i \in 0..11 |-> 0]]
    ELSE LET acc   == BreakdownLoopAnyYear(SubSeq(data, 1, Len(data) - 1), y)
             entry == data[Len(data)]
             mi    == getMonth(parseISO(entry.date))
         IN  [hours  |-> [acc.hours EXCEPT
                            ![mi] = RatAdd(@, calculateShiftHours(entry.shift))],
              shifts |-> [acc.shifts EXCEPT ![mi] = @ + 1]]

(* The forEach of calculateMonthlyBreakdown over data, from arrays of zeros *)
RECURSIVE BreakdownLoop(_, _)
BreakdownLoop(data, y) ==
    IF data = << >>
    THEN [hours |-> [i \in 0..11 |-> Zero], shifts |-> [i \in 0..11 |-> 0]]
    ELSE LET acc       == BreakdownLoop(SubSeq(data, 1, Len(data) - 1), y)
             entry     == data[Len(data)]
             entryDate == parseISO(entry.date)
             mi        == getMonth(entryDate)
         IN  IF isValid(entryDate) /\ getFullYear(entryDate) = y
             THEN [hours  |-> [acc.hours EXCEPT
                                 ![mi] = RatAdd(@, calculateShiftHours(entry.shift))],
                   shifts |-> [acc.shifts EXCEPT ![mi] = @ + 1]]
             ELSE acc

calculateMonthlyBreakdown(data, y) ==
    LET acc == BreakdownLoop(data, y)
    IN  [hours  |-> [i \in 0..11 |-> round(acc.hours[i], 3)],
         shifts |-> acc.shifts]

getEmptyStatistics ==
    [ total_hours             |-> Zero,
      total_shifts            |-> 0,
      average_hours_per_shift |-> Zero,
      utilization_percentage  |-> Zero,
      weekly_workload         |-> << >> ]

getEmptyYearlyStatistics ==
    [ total_hours                   |-> Zero,
      total_shifts                  |-> 0,
      average_hours_per_shift       |-> Zero,
      max_yearly_hours              |-> Zero,
      yearly_utilization_percentage |-> Zero,
      monthly_breakdown |-> [hours  |-> [i \in 0..11 |-> Zero],
                             shifts |-> [i \in 0..11 |-> 0]] ]

NoData == NullList

(* Faulty variant: the guard tests !scheduleData only, not its length *)
calculateEmployeeStatisticsNullOnly(co, emp, data, y, m) ==
    IF data = NoData THEN getEmptyStatistics
    ELSE LET totalHours   == calculateTotalHours(data)
             totalShifts  == Len(data)
             averageHoursPerShift ==
                 IF totalShifts > 0 THEN RatDiv(totalHours, RatOfInt(totalShifts)) ELSE Zero
             expectedMonthlyHours == calculateExpectedMonthlyHours(co, emp, y, m)
         IN  [ total_hours             |-> totalHours,
               total_shifts            |-> totalShifts,
               average_hours_per_shift |-> averageHoursPerShift,
               utilization_percentage  |->
                   calculateUtilizationPercentage(totalHours, expectedMonthlyHours),
               weekly_workload         |-> calculateWeeklyWorkload(data, y, m) ]

calculateEmployeeStatistics(co, emp, data, y, m) ==
    IF data = NoData \/ Len(data) = 0 THEN getEmptyStatistics
    ELSE LET totalHours   == calculateTotalHours(data)
             totalShifts  == Len(data)
             averageHoursPerShift ==
                 IF totalShifts > 0 THEN RatDiv(totalHours, RatOfInt(totalShifts)) ELSE Zero
             expectedMonthlyHours == calculateExpectedMonthlyHours(co, emp, y, m)
         IN  [ total_hours             |-> totalHours,
               total_shifts            |-> totalShifts,
               average_hours_per_shift |-> averageHoursPerShift,
               utilization_percentage  |->
                   calculateUtilizationPercentage(totalHours, expectedMonthlyHours),
               weekly_workload         |-> calculateWeeklyWorkload(data, y, m) ]

(* Faulty variant: max_yearly_hours is computed without the absences *)
calculateYearlyStatisticsNoAbsences(co, emp, data, y) ==
    IF data = NoData \/ Len(data) = 0 THEN getEmptyYearlyStatistics
    ELSE LET totalHours   == calculateTotalHours(data)
             totalShifts  == Len(data)
             expectedYearlyHours ==
                 calculateExpectedYearlyHours(co, [emp EXCEPT !.absences = << >>], y)
         IN  [ total_hours                   |-> totalHours,
               total_shifts                  |-> totalShifts,
               average_hours_per_shift       |-> RatDiv(totalHours, RatOfInt(totalShifts)),
               max_yearly_hours              |-> expectedYearlyHours,
               yearly_utilization_percentage |->
                   calculateUtilizationPercentage(totalHours, expectedYearlyHours),
               monthly_breakdown             |-> calculateMonthlyBreakdown(data, y) ]

calculateYearlyStatistics(co, emp, data, y) ==
    IF data = NoData \/ Len(data) = 0 THEN getEmptyYearlyStatistics
    ELSE LET totalHours   == calculateTotalHours(data)
             totalShifts  == Len(data)
             averageHoursPerShift ==
                 IF totalShifts > 0 THEN RatDiv(totalHours, RatOfInt(totalShifts)) ELSE Zero
             expectedYearlyHours == calculateExpectedYearlyHours(co, emp, y)
         IN  [ total_hours                   |-> totalHours,
               total_shifts                  |-> totalShifts,
               average_hours_per_shift       |-> averageHoursPerShift,
               max_yearly_hours              |-> expectedYearlyHours,
               yearly_utilization_percentage |->
                   calculateUtilizationPercentage(totalHours, expectedYearlyHours),
               monthly_breakdown             |-> calculateMonthlyBreakdown(data, y) ]

-----------------------------------------------------------------------------
(* Calls *)

NoCall == [op |-> "none"]

NoFrame == [pc |-> "idle"]

(* The calculator reads no clock and no store: in its runs the clock stands *)
(* at day 0 and no store is constructed                                     *)
Epoch == [day |-> 0, ms |-> 0]

NoStore == [constructed |-> FALSE]

(* The employee view and the upload view before they are mounted *)
NoView == [mounted |-> FALSE]

NoUpload == [mounted |-> FALSE]

(* getWorkingDaysInMonth(year, month) is entered *)
WdCall ==
    /\ ret = NoCall
    /\ wd.pc = "idle"
    /\ wd' = WdEnter(year, month)
    /\ UNCHANGED <<company, employee, scheduleData, year, month, ret, now, store, view, upload>>

(* one iteration of its loop *)
WdStep ==
    /\ wd.pc = "loop"
    /\ WdCond(wd)
    /\ wd' = WdIterate(wd, sundaysOff(company))
    /\ UNCHANGED <<company, employee, scheduleData, year, month, ret, now, store, view, upload>>

(* the loop condition fails: return workingDays *)
WdReturn ==
    /\ wd.pc = "loop"
    /\ ~WdCond(wd)
    /\ wd' = [wd EXCEPT !.pc = "return"]
    /\ ret' = [op |-> "getWorkingDaysInMonth", value |-> wd.workingDays]
    /\ UNCHANGED <<company, employee, scheduleData, year, month, now, store, view, upload>>

(* the month loop of calculateExpectedYearlyHours runs for the target year *)
WdYear ==
    /\ ret = NoCall
    /\ wd.pc = "idle"
    /\ ret' = [op |-> "totalWorkingDays",
               value |-> totalWorkingDays(year, sundaysOff(company))]
    /\ UNCHANGED <<company, employee, scheduleData, year, month, wd, now, store, view, upload>>

(* the caller takes the result; the calculator keeps no state of the call *)
TakeResult ==
    /\ ret # NoCall
    /\ ret' = NoCall
    /\ wd' = NoFrame
    /\ UNCHANGED <<company, employee, scheduleData, year, month, now, store, view, upload>>

DefaultEmployee == [max_hours_per_week |-> 40, absences |-> << >>]

InitWorkingDays ==
    /\ company \in [sunday_is_workday : BOOLEAN]
    /\ employee = DefaultEmployee
    /\ scheduleData = << >>
    /\ year \in Years
    /\ month \in Months
    /\ ret = NoCall
    /\ wd = NoFrame
    /\ now = Epoch
    /\ store = NoStore
    /\ view = NoView
    /\ upload = NoUpload

NextWorkingDays == WdCall \/ WdStep \/ WdReturn \/ WdYear \/ TakeResult

(* A call runs synchronously to its end: the loop is never abandoned *)
SpecWorkingDays ==
    InitWorkingDays /\ [][NextWorkingDays]_vars /\ WF_vars(WdStep) /\ WF_vars(WdReturn)

-----------------------------------------------------------------------------
(* The statistics of a list of schedule entries *)

Time(h, m) == [h |-> h, m |-> m]

(* The shift catalogue of the runs: an overnight shift of 8 hours, a shift  *)
(* of 8 hours 20 minutes (not a multiple of 0.001 h), a shift with no end   *)
Shifts ==
    { [name |-> "night", start_time |-> Time(22, 0), end_time |-> Time(6, 0)],
      [name |-> "long",  start_time |-> Time(8, 0),  end_time |-> Time(16, 20)],
      [name |-> "open",  start_time |-> Time(8, 0),  end_time |-> NoTime] }

Iso(y, m, d) == [y |-> y, m |-> m, d |-> d]

(* The date before the first of month m of year y *)
IsoBefore(y, m) ==
    IF m = 1 THEN Iso(y - 1, 12, 31) ELSE Iso(y, m - 1, DaysInMonth(y, m - 1))

(* Entry dates around the target month: its first and last day and the day  *)
(* before it (in the previous month, for January in the previous year)      *)
EntryDates(y, m) == { Iso(y, m, 1), Iso(y, m, DaysInMonth(y, m)), IsoBefore(y, m) }

Entries(y, m) == [date : EntryDates(y, m), shift : Shifts]

SeqsUpTo(S, n) == UNION { [1..k -> S] : k \in 0..n }

CallEmployeeStatistics ==
    /\ ret = NoCall
    /\ ret' = [op |-> "calculateEmployeeStatistics",
               value |-> calculateEmployeeStatistics(company, employee, scheduleData,
                                                     year, month)]
    /\ UNCHANGED <<company, employee, scheduleData, year, month, wd, now, store, view, upload>>

CallYearlyStatistics ==
    /\ ret = NoCall
    /\ ret' = [op |-> "calculateYearlyStatistics",
               value |-> calculateYearlyStatistics(company, employee, scheduleData, year)]
    /\ UNCHANGED <<company, employee, scheduleData, year, month, wd, now, store, view, upload>>

CallWeeklyWorkload ==
    /\ ret = NoCall
    /\ scheduleData # NoData
    /\ ret' = [op |-> "calculateWeeklyWorkload",
               value |-> calculateWeeklyWorkload(scheduleData, year, month)]
    /\ UNCHANGED <<company, employee, scheduleData, year, month, wd, now, store, view, upload>>

CallMonthlyBreakdown ==
    /\ ret = NoCall
    /\ scheduleData # NoData
    /\ ret' = [op |-> "calculateMonthlyBreakdown",
               value |-> calculateMonthlyBreakdown(scheduleData, year)]
    /\ UNCHANGED <<company, employee, scheduleData, year, month, wd, now, store, view, upload>>

Init ==
    /\ company = [sunday_is_workday |-> FALSE]
    /\ employee = DefaultEmployee
    /\ year \in Years
    /\ month \in Months
    /\ scheduleData \in SeqsUpTo(Entries(year, month), MaxEntries) \cup {NoData}
    /\ ret = NoCall
    /\ wd = NoFrame
    /\ now = Epoch
    /\ store = NoStore
    /\ view = NoView
    /\ upload = NoUpload

Next ==
    \/ CallEmployeeStatistics
    \/ CallYearlyStatistics
    \/ CallWeeklyWorkload
    \/ CallMonthlyBreakdown
    \/ TakeResult

Spec == Init /\ [][Next]_vars

-----------------------------------------------------------------------------
(* Calendar facts the claims are stated against, computed without the Date  *)
(* model: the weekday by Zeller's congruence, the month lengths by table.   *)

(* 0 = Sunday .. 6 = Saturday *)
Weekday(y, m, d) ==
    LET mm == IF m < 3 THEN m + 12 ELSE m
        yy == IF m < 3 THEN y - 1 ELSE y
        K  == yy % 100
        J  == yy \div 100
        h  == (d + (13 * (mm + 1)) \div 5 + K + K \div 4 + J \div 4 + 5 * J) % 7
    IN  (h + 6) % 7

MonthLength(y, m) ==
    CASE m \in {1, 3, 5, 7, 8, 10, 12} -> 31
      [] m \in {4, 6, 9, 11} -> 30
      [] OTHER -> IF y % 4 = 0 /\ (y % 100 # 0 \/ y % 400 = 0) THEN 29 ELSE 28

FixedHolidays == { <<1, 1>>, <<5, 1>>, <<10, 3>>, <<12, 25>>, <<12, 26>> }

IsWorkingDate(y, m, d, sundayIsWorkday) ==
    /\ Weekday(y, m, d) # 6
    /\ ~(Weekday(y, m, d) = 0 /\ ~sundayIsWorkday)
    /\ <<m, d>> \notin FixedHolidays

WorkingDatesOfMonth(y, m, sundayIsWorkday) ==
    { d \in 1..MonthLength(y, m) : IsWorkingDate(y, m, d, sundayIsWorkday) }

-----------------------------------------------------------------------------
(* The expected hours of an employee *)

HoursPerWeek == {20, 40}

(* Absence dates around the target month, as for the entries *)
AbsenceDates(y, m) == EntryDates(y, m)

(* The absence list of an employee away on every working day of month m of  *)
(* year y, from day d on, in date order                                     *)
RECURSIVE AbsentFrom(_, _, _, _)
AbsentFrom(y, m, d, sundayIsWorkday) ==
    IF d > MonthLength(y, m) THEN << >>
    ELSE (IF IsWorkingDate(y, m, d, sundayIsWorkday) THEN << Iso(y, m, d) >> ELSE << >>)
           \o AbsentFrom(y, m, d + 1, sundayIsWorkday)

AbsentAllMonth(y, m, sundayIsWorkday) == AbsentFrom(y, m, 1, sundayIsWorkday)

CallExpectedMonthlyHours ==
    /\ ret = NoCall
    /\ ret' = [op |-> "calculateExpectedMonthlyHours",
               value |-> calculateExpectedMonthlyHours(company, employee, year, month)]
    /\ UNCHANGED <<company, employee, scheduleData, year, month, wd, now, store, view, upload>>

CallExpectedYearlyHours ==
    /\ ret = NoCall
    /\ ret' = [op |-> "calculateExpectedYearlyHours",
               value |-> calculateExpectedYearlyHours(company, employee, year)]
    /\ UNCHANGED <<company, employee, scheduleData, year, month, wd, now, store, view, upload>>

CallAbsencesInMonth ==
    /\ ret = NoCall
    /\ ret' = [op |-> "getAbsencesInMonth",
               value |-> getAbsencesInMonth(employee, year, month)]
    /\ UNCHANGED <<company, employee, scheduleData, year, month, wd, now, store, view, upload>>

CallAbsencesInYear ==
    /\ ret = NoCall
    /\ ret' = [op |-> "getAbsencesInYear", value |-> getAbsencesInYear(employee, year)]
    /\ UNCHANGED <<company, employee, scheduleData, year, month, wd, now, store, view, upload>>

(* calculateExpectedMonthlyHours for each month of the year, beside         *)
(* calculateExpectedYearlyHours                                             *)
CallExpectedHoursOfYear ==
    /\ ret = NoCall
    /\ ret' = [op |-> "expectedHoursOfYear",
               monthly |-> [m \in Months |->
                               calculateExpectedMonthlyHours(company, employee, year, m)],
               yearly |-> calculateExpectedYearlyHours(company, employee, year)]
    /\ UNCHANGED <<company, employee, scheduleData, year, month, wd, now, store, view, upload>>

InitExpected ==
    /\ company \in [sunday_is_workday : BOOLEAN]
    /\ year \in Years
    /\ month \in Months
    /\ employee \in [ max_hours_per_week : HoursPerWeek,
                       absences : SeqsUpTo(AbsenceDates(year, month), MaxAbsences)
                                    \cup {NoAbsences}
                                    \cup {AbsentAllMonth(year, month,
                                                         company.sunday_is_workday)} ]
    /\ scheduleData = << >>
    /\ ret = NoCall
    /\ wd = NoFrame
    /\ now = Epoch
    /\ store = NoStore
    /\ view = NoView
    /\ upload = NoUpload

NextExpected ==
    \/ CallExpectedMonthlyHours
    \/ CallExpectedYearlyHours
    \/ CallAbsencesInMonth
    \/ CallAbsencesInYear
    \/ CallExpectedHoursOfYear
    \/ TakeResult

SpecExpected == InitExpected /\ [][NextExpected]_vars

-----------------------------------------------------------------------------
(* The utilization of an employee *)

(* The absence list of an employee away on every calendar day of month m    *)
(* of year y: more absences than the month has working days                 *)
AbsentEveryDay(y, m) == [d \in 1..MonthLength(y, m) |-> Iso(y, m, d)]

(* Arguments of a direct call: 0 and 100 actual hours; negative, zero and   *)
(* positive expected hours                                                  *)
ActualHours == { Zero, RatOfInt(100) }

ExpectedHours == { RatOfInt(-8), Zero, RatOfInt(160) }

CallUtilizationPercentage ==
    /\ ret = NoCall
    /\ \E actualHours \in ActualHours, expectedHours \in ExpectedHours :
          ret' = [op |-> "calculateUtilizationPercentage",
                  actualHours |-> actualHours, expectedHours |-> expectedHours,
                  value |-> calculateUtilizationPercentage(actualHours, expectedHours)]
    /\ UNCHANGED <<company, employee, scheduleData, year, month, wd, now, store, view, upload>>

InitUtilization ==
    /\ company \in [sunday_is_workday : BOOLEAN]
    /\ year \in Years
    /\ month \in Months
    /\ employee \in [ max_hours_per_week : HoursPerWeek,
                       absences : { << >>,
                                    AbsentAllMonth(year, month, company.sunday_is_workday),
                                    AbsentEveryDay(year, month) } ]
    /\ scheduleData \in [1..1 -> Entries(year, month)] \cup {<< >>, NoData}
    /\ ret = NoCall
    /\ wd = NoFrame
    /\ now = Epoch
    /\ store = NoStore
    /\ view = NoView
    /\ upload = NoUpload

NextUtilization ==
    \/ CallUtilizationPercentage
    \/ CallEmployeeStatistics
    \/ CallYearlyStatistics
    \/ TakeResult

SpecUtilization == InitUtilization /\ [][NextUtilization]_vars

-----------------------------------------------------------------------------
(* The duration of a shift *)

(* Times of day: midnight, the ends of the documented shifts, the last      *)
(* minute of the day                                                        *)
Times == { Time(0, 0), Time(6, 0), Time(8, 0), Time(16, 0), Time(22, 0), Time(23, 59) }

(* Shifts with each time present or absent *)
AllShifts == [start_time : Times \cup {NoTime}, end_time : Times \cup {NoTime}]

(* An entry of 8 h 20 min on the first of the target month *)
BaseEntry(y, m) ==
    [date |-> Iso(y, m, 1),
     shift |-> [name |-> "long", start_time |-> Time(8, 0), end_time |-> Time(16, 20)]]

(* Entry lists: one entry with any of the shifts, alone, after or before    *)
(* the base entry                                                           *)
ShiftLists(y, m) ==
    UNION { { << x >>, << BaseEntry(y, m), x >>, << x, BaseEntry(y, m) >> } :
              x \in [date : {Iso(y, m, 1), IsoBefore(y, m)}, shift : AllShifts] }

(* calculateShiftHours(entry.shift) for an entry of the list *)
CallShiftHours ==
    /\ ret = NoCall
    /\ \E i \in 1..Len(scheduleData) :
          ret' = [op |-> "calculateShiftHours", shift |-> scheduleData[i].shift,
                  value |-> calculateShiftHours(scheduleData[i].shift)]
    /\ UNCHANGED <<company, employee, scheduleData, year, month, wd, now, store, view, upload>>

InitShift ==
    /\ company = [sunday_is_workday |-> FALSE]
    /\ employee = DefaultEmployee
    /\ year \in Years
    /\ month \in Months
    /\ scheduleData \in ShiftLists(year, month)
    /\ ret = NoCall
    /\ wd = NoFrame
    /\ now = Epoch
    /\ store = NoStore
    /\ view = NoView
    /\ upload = NoUpload

NextShift ==
    \/ CallShiftHours
    \/ CallEmployeeStatistics
    \/ CallYearlyStatistics
    \/ TakeResult

SpecShift == InitShift /\ [][NextShift]_vars

-----------------------------------------------------------------------------
(* The week-stepping loop of calculateWeeklyWorkload, one iteration a step *)

(* Twenty-eight consecutive years: every weekday of 1 January, in leap and  *)
(* in common years                                                          *)
WeekYears == 2000..2027

(* The frame of calculateWeeklyWorkload before its loop.  weeks records the *)
(* day number of the Monday of each bucket pushed.                          *)
WkEnter(y, m) ==
    [ pc             |-> "week",
      currentWeek    |-> startOfWeek(NewDate(y, m - 1, 1)),
      lastDay        |-> NewDate(y, m, 0),
      weeklyWorkload |-> << >>,
      weeks          |-> << >> ]

(* Faulty variant: currentWeek < lastDay, a week that begins on the last    *)
(* day of the month is left out                                             *)
WkCondStrict(f) == f.currentWeek.day < f.lastDay.day

WkCond(f) == DateLE(f.currentWeek, f.lastDay)

(* One iteration of the while loop (const weekHours is a value computed     *)
(* once, bound here as the element of a one-element set)                    *)
WkIterate(f, data) ==
    CHOOSE g \in
        { [f EXCEPT !.weeklyWorkload = Append(@, round(weekHours, 3)),
                    !.weeks          = Append(@, f.currentWeek.day),
                    !.currentWeek    = setDate(f.currentWeek, getDate(f.currentWeek) + 7)] :
            weekHours \in { WeekHours(data, f.currentWeek, endOfWeek(f.currentWeek)) } } :
        TRUE

WkCall ==
    /\ ret = NoCall
    /\ wd.pc = "idle"
    /\ wd' = WkEnter(year, month)
    /\ UNCHANGED <<company, employee, scheduleData, year, month, ret, now, store, view, upload>>

WkStep ==
    /\ wd.pc = "week"
    /\ WkCond(wd)
    /\ wd' = WkIterate(wd, scheduleData)
    /\ UNCHANGED <<company, employee, scheduleData, year, month, ret, now, store, view, upload>>

WkReturn ==
    /\ wd.pc = "week"
    /\ ~WkCond(wd)
    /\ wd' = [wd EXCEPT !.pc = "weekreturn"]
    /\ ret' = [op |-> "calculateWeeklyWorkload", value |-> wd.weeklyWorkload]
    /\ UNCHANGED <<company, employee, scheduleData, year, month, now, store, view, upload>>

InitWeekly ==
    /\ company = [sunday_is_workday |-> FALSE]
    /\ employee = DefaultEmployee
    /\ year \in WeekYears
    /\ month \in Months
    /\ scheduleData \in { << >>, << BaseEntry(year, month) >> }
    /\ ret = NoCall
    /\ wd = NoFrame
    /\ now = Epoch
    /\ store = NoStore
    /\ view = NoView
    /\ upload = NoUpload

NextWeekly == WkCall \/ WkStep \/ WkReturn \/ TakeResult

(* A call runs synchronously to its end: the loop is never abandoned *)
SpecWeekly ==
    InitWeekly /\ [][NextWeekly]_vars /\ WF_vars(WkStep) /\ WF_vars(WkReturn)

-----------------------------------------------------------------------------
(* The schedule store (src/unnamed/part_002) and its calendar grid.         *)
(* MonthView.vue computes calendarWeeks by the same statements from the     *)
(* store's currentYear, currentMonth and scheduleData.                      *)

(* date-fns startOfMonth: the first of the month, 00:00:00.000 *)
startOfMonth(date) == [day |-> date.day - getDate(date) + 1, ms |-> 0]

(* date-fns endOfMonth: the last day of the month, 23:59:59.999 *)
endOfMonth(date) ==
    [day |-> date.day - getDate(date) + DaysInMonth(getFullYear(date), getMonth(date) + 1),
     ms  |-> 86399999]

(* Faulty variant: the day of the interval's end is left out *)
eachDayOfIntervalWithoutEnd(start, end) ==
    [i \in 1..(end.day - start.day) |-> [day |-> start.day + i - 1, ms |-> 0]]

(* date-fns eachDayOfInterval({start, end}): midnight of every day from the *)
(* day of start to the day of end                                           *)
eachDayOfInterval(start, end) ==
    [i \in 1..(end.day - start.day + 1) |-> [day |-> start.day + i - 1, ms |-> 0]]

(* Faulty variant: the years are compared, the months are not *)
isSameYearOnly(a, b) == getFullYear(a) = getFullYear(b)

isSameMonth(a, b) == getFullYear(a) = getFullYear(b) /\ getMonth(a) = getMonth(b)

(* format(day, 'yyyy-MM-dd') *)
format(day) == Iso(getFullYear(day), getMonth(day) + 1, getDate(day))

(* date-fns isToday(day): the same local day as Date.now() *)
isToday(day) == day.day = now.day

(* array.slice(from, to) of a list indexed from 0 *)
slice(list, from, to) ==
    SubSeq(list, from + 1, IF to < Len(list) THEN to ELSE Len(list))

currentYear(st) == getFullYear(st.currentDate)

currentMonth(st) == getMonth(st.currentDate) + 1

(* A mapping without entries: {} *)
NoShifts == {}

(* obj[key] || dflt for an object given as a record, function or nothing *)
Field(obj, key, dflt) == IF key \in DOMAIN obj THEN obj[key] ELSE dflt

(* schedule_data?.[dateStr] || {} : the payload of a date, a record of the  *)
(* fields it carries; EmptyPayload has none                                 *)
EmptyPayload == [key \in {} |-> FALSE]

(* One cell of the grid: the callback of map *)
CalendarCell(st, day, monthStart) ==
    IF ~isSameMonth(day, monthStart) THEN Null
    ELSE LET dateStr         == format(day)
             dayScheduleData == Field(st.scheduleData.schedule_data, dateStr, EmptyPayload)
         IN  [ day            |-> getDate(day),
               date           |-> day,
               dateStr        |-> dateStr,
               shifts         |-> Field(dayScheduleData, "shifts", NoShifts),
               is_today       |-> isToday(day),
               is_holiday     |-> Field(dayScheduleData, "is_holiday", FALSE),
               is_sunday      |-> getDay(day) = 0,
               is_non_working |-> Field(dayScheduleData, "is_non_working", FALSE) ]

(* The for loop of getCalendarWeeks from index i on *)
RECURSIVE CalendarLoop(_, _, _, _, _)
CalendarLoop(st, days, monthStart, i, weeks) ==
    IF i < Len(days)
    THEN LET part == slice(days, i, i + 7)
             week == [c \in 1..Len(part) |-> CalendarCell(st, part[c], monthStart)]
         IN  CalendarLoop(st, days, monthStart, i + 7, Append(weeks, week))
    ELSE weeks

getCalendarWeeks(st) ==
    IF currentYear(st) = 0 \/ currentMonth(st) = 0 THEN << >>
    ELSE LET monthStart    == startOfMonth(NewDate(currentYear(st), currentMonth(st) - 1, 1))
             monthEnd      == endOfMonth(monthStart)
             calendarStart == startOfWeek(monthStart)
             calendarEnd   == endOfWeek(monthEnd)
             days          == eachDayOfInterval(calendarStart, calendarEnd)
         IN  CalendarLoop(st, days, monthStart, 0, << >>)

(* const scheduleData = ref({}): a response without schedule_data is read   *)
(* as one whose schedule_data has no date                                   *)
NoSchedule == [schedule_data |-> [d \in {} |-> EmptyPayload]]

(* The store as constructed at clock: currentDate = ref(new Date()) *)
NewStore(clock) ==
    [ constructed  |-> TRUE,
      scheduleData |-> NoSchedule,
      loading      |-> FALSE,
      error        |-> Null,
      currentDate  |-> clock,
      selectedAlgorithm |-> "",
      pending      |-> 0,       \* loadScheduleData calls awaiting their response
      dayScheduleData      |-> NoSchedule,
      employeeScheduleData |-> NoSchedule,
      employeeYearlyData   |-> NoSchedule,
      pendingDay      |-> 0,    \* loadDayScheduleData calls awaiting theirs
      pendingEmployee |-> 0,    \* loadEmployeeScheduleData calls
      pendingYearly   |-> 0 ]   \* loadEmployeeYearlyData calls

(* The years of the calendar grid *)
GridYears == 2000..2100

(* getCalendarWeeks(): what it reads of the store is recorded with the result *)
CalendarResult(st) ==
    [ op       |-> "getCalendarWeeks",
      year     |-> currentYear(st),
      month    |-> currentMonth(st),
      schedule |-> st.scheduleData,
      value    |-> getCalendarWeeks(st) ]

CallCalendarWeeks ==
    /\ ret = NoCall
    /\ ret' = CalendarResult(store)
    /\ UNCHANGED <<company, employee, scheduleData, year, month, wd, now, store, view, upload>>

(* The store is constructed on the first of a month of the grid years, at   *)
(* midnight or at noon; the calculator's state plays no part                *)
InitCalendar ==
    /\ now \in { [day |-> NewDate(y, m - 1, 1).day, ms |-> ms] :
                   y \in GridYears, m \in Months, ms \in {0, 43200000} }
    /\ store = NewStore(now)
    /\ view = NoView
    /\ upload = NoUpload
    /\ company = [sunday_is_workday |-> FALSE]
    /\ employee = DefaultEmployee
    /\ scheduleData = << >>
    /\ year = currentYear(store)
    /\ month = currentMonth(store)
    /\ ret = NoCall
    /\ wd = NoFrame

NextCalendar == CallCalendarWeeks \/ TakeResult

SpecCalendar == InitCalendar /\ [][NextCalendar]_vars

-----------------------------------------------------------------------------
(* The store in use: the clock advances, the views navigate, schedules are  *)
(* loaded, the grid is computed again                                       *)

MaxPending == 1

SomeShifts == { << "early", << "anna" >> >> }

PayloadHoliday == [shifts |-> SomeShifts, is_holiday |-> TRUE, is_non_working |-> TRUE]

PayloadWorkday == [shifts |-> SomeShifts, is_holiday |-> FALSE, is_non_working |-> FALSE]

PayloadShiftsOnly == [shifts |-> SomeShifts]

(* response.data of GET /api/companies/:id/schedule/ for May 2025: payloads *)
(* for Thursday 1 May, Friday 2 May and Sunday 4 May; or one that does not  *)
(* flag 1 May                                                               *)
Responses ==
    { [schedule_data |-> Iso(2025, 5, 1) :> PayloadHoliday
                           @@ Iso(2025, 5, 2) :> PayloadWorkday
                           @@ Iso(2025, 5, 4) :> PayloadShiftsOnly],
      [schedule_data |-> Iso(2025, 5, 1) :> PayloadWorkday] }

(* The clock runs from 30 April 2025 to 2 May 2025 *)
ClockStart == [day |-> NewDate(2025, 3, 30).day, ms |-> 43200000]

ClockEnd == NewDate(2025, 4, 2)

(* midnight passes *)
ClockTick ==
    /\ now.day < ClockEnd.day
    /\ now' = [day |-> now.day + 1, ms |-> 0]
    /\ UNCHANGED <<company, employee, scheduleData, year, month, ret, wd, store, view, upload>>

(* previousMonth / nextMonth of the views: setCurrentDate(new Date(year,    *)
(* month - 2)) and setCurrentDate(new Date(year, month)), from April to     *)
(* June 2025                                                                *)
SetCurrentDate ==
    /\ \E date \in { NewDate(currentYear(store), currentMonth(store) - 2, 1),
                      NewDate(currentYear(store), currentMonth(store), 1) } :
          /\ getFullYear(date) = 2025 /\ getMonth(date) + 1 \in 4..6
          /\ store' = [store EXCEPT !.currentDate = date]
    /\ UNCHANGED <<company, employee, scheduleData, year, month, ret, wd, now, view, upload>>

(* loadScheduleData up to its await *)
LoadScheduleData ==
    /\ store.pending < MaxPending
    /\ store' = [store EXCEPT !.loading = TRUE, !.error = Null, !.pending = @ + 1]
    /\ UNCHANGED <<company, employee, scheduleData, year, month, ret, wd, now, view, upload>>

(* the response arrives: try block and finally *)
ScheduleResponse ==
    /\ store.pending > 0
    /\ \E data \in Responses :
          store' = [store EXCEPT !.scheduleData = data, !.loading = FALSE,
                                 !.pending = @ - 1]
    /\ UNCHANGED <<company, employee, scheduleData, year, month, ret, wd, now, view, upload>>

(* the request fails: catch block and finally *)
ScheduleFailure ==
    /\ store.pending > 0
    /\ store' = [store EXCEPT !.error = [message |-> "Failed to load schedule data"],
                              !.loading = FALSE, !.pending = @ - 1]
    /\ UNCHANGED <<company, employee, scheduleData, year, month, ret, wd, now, view, upload>>

(* getCalendarWeeks() once more, the previous result kept beside the new *)
CallCalendarWeeksAgain ==
    /\ ret.op = "getCalendarWeeks"
    /\ "prev" \notin DOMAIN ret
    /\ ret' = [ op       |-> "getCalendarWeeks",
                year     |-> currentYear(store),
                month    |-> currentMonth(store),
                schedule |-> store.scheduleData,
                value    |-> getCalendarWeeks(store),
                prev     |-> ret ]
    /\ UNCHANGED <<company, employee, scheduleData, year, month, wd, now, store, view, upload>>

InitStore ==
    /\ now \in { ClockStart, [day |-> ClockStart.day + 1, ms |-> 0] }
    /\ store = NewStore(now)
    /\ view = NoView
    /\ upload = NoUpload
    /\ company = [sunday_is_workday |-> FALSE]
    /\ employee = DefaultEmployee
    /\ scheduleData = << >>
    /\ year = currentYear(store)
    /\ month = currentMonth(store)
    /\ ret = NoCall
    /\ wd = NoFrame

NextStore ==
    \/ ClockTick
    \/ SetCurrentDate
    \/ LoadScheduleData
    \/ ScheduleResponse
    \/ ScheduleFailure
    \/ CallCalendarWeeks
    \/ CallCalendarWeeksAgain
    \/ TakeResult

SpecStore == InitStore /\ [][NextStore]_vars

-----------------------------------------------------------------------------
(* Input with a date that cannot be parsed *)

(* "YYYY-02-30": a date string of the right shape that names no day *)
UnparsableDate(y) == Iso(y, 2, 30)

(* An entry of 8 h 20 min with the unparsable date *)
BadEntry(y) ==
    [date |-> UnparsableDate(y),
     shift |-> [name |-> "long", start_time |-> Time(8, 0), end_time |-> Time(16, 20)]]

(* Entry lists and absence lists with or without the unparsable date *)
ListsWithBadEntry(y, m) ==
    { << BaseEntry(y, m) >>, << BadEntry(y) >>,
      << BaseEntry(y, m), BadEntry(y) >>, << BadEntry(y), BaseEntry(y, m) >> }

AbsencesWithBadDate(y, m) ==
    { << >>, << UnparsableDate(y) >>, << Iso(y, m, 1), UnparsableDate(y) >> }

InitInvalid ==
    /\ company = [sunday_is_workday |-> FALSE]
    /\ year \in Years
    /\ month \in Months
    /\ employee \in [max_hours_per_week : {40}, absences : AbsencesWithBadDate(year, month)]
    /\ scheduleData \in ListsWithBadEntry(year, month)
    /\ ret = NoCall
    /\ wd = NoFrame
    /\ now = Epoch
    /\ store = NoStore
    /\ view = NoView
    /\ upload = NoUpload

NextInvalid ==
    \/ CallEmployeeStatistics
    \/ CallYearlyStatistics
    \/ CallAbsencesInMonth
    \/ CallAbsencesInYear
    \/ TakeResult

SpecInvalid == InitInvalid /\ [][NextInvalid]_vars

-----------------------------------------------------------------------------
(* The employee view (src/src/views/EmployeeView.vue): month navigation,    *)
(* algorithm changes, and the responses of its fetch requests               *)

(* User actions on the view after it is mounted *)
MaxActions == 2

Algorithms == {"ILP", "GA"}

(* The server's answer to GET .../employees/:id/schedule/?year&month&algorithm *)
(* : one shift on the 3rd of the month, under "GA" a second one on the 10th  *)
ServerSchedule(y, m, algorithm) ==
    IF algorithm = "GA"
    THEN << [date |-> Iso(y, m, 3),
             shift |-> [name |-> "early", start_time |-> Time(8, 0), end_time |-> Time(16, 0)]],
            [date |-> Iso(y, m, 10),
             shift |-> [name |-> "long", start_time |-> Time(8, 0), end_time |-> Time(16, 20)]] >>
    ELSE << [date |-> Iso(y, m, 3),
             shift |-> [name |-> "early", start_time |-> Time(8, 0), end_time |-> Time(16, 0)]] >>

ServerResponse(req) ==
    [ employee      |-> DefaultEmployee,
      schedule_data |-> ServerSchedule(req.year, req.month, req.algorithm) ]

(* GET .../employees/:id/yearly/?year&algorithm *)
ServerYearlyResponse(req) ==
    [ employee      |-> DefaultEmployee,
      schedule_data |-> ServerSchedule(req.year, 1, req.algorithm)
                        \o ServerSchedule(req.year, 7, req.algorithm) ]

(* employeeStats = ref({}) *)
NoStats == [empty |-> TRUE]

(* The refs of the view as set up; requests are the fetch calls in flight,  *)
(* console what the handler that ran last has written with console.error    *)
NewView ==
    [ mounted          |-> TRUE,
      started          |-> FALSE,
      employeeData     |-> Null,
      employeeSchedule |-> << >>,
      employeeStats    |-> NoStats,
      weeklyWorkload   |-> << >>,
      yearlyData       |-> Null,
      requests         |-> << >>,
      console          |-> << >>,
      actions          |-> 0 ]

(* loadEmployeeData up to its await: the URL carries the current year,      *)
(* month and algorithm; thenYearly says that the caller awaits the call and *)
(* goes on with loadYearlyData                                              *)
EmployeeRequest(st, thenYearly) ==
    [ kind       |-> "schedule",
      year       |-> currentYear(st),
      month      |-> currentMonth(st),
      algorithm  |-> st.selectedAlgorithm,
      thenYearly |-> thenYearly ]

(* loadYearlyData up to its await *)
YearlyRequest(st) ==
    [ kind       |-> "yearly",
      year       |-> currentYear(st),
      month      |-> 0,
      algorithm  |-> st.selectedAlgorithm,
      thenYearly |-> FALSE ]

Without(s, i) == SubSeq(s, 1, i - 1) \o SubSeq(s, i + 1, Len(s))

(* the awaiting caller continues once loadEmployeeData has returned *)
Continue(reqs, i, st) ==
    IF reqs[i].thenYearly THEN Append(Without(reqs, i), YearlyRequest(st))
    ELSE Without(reqs, i)

(* onMounted: await loadEmployeeData(); await loadYearlyData() *)
OnMounted ==
    /\ view.mounted /\ ~view.started
    /\ view' = [view EXCEPT !.started = TRUE,
                            !.console = << >>,
                            !.requests = Append(@, EmployeeRequest(store, TRUE))]
    /\ UNCHANGED <<company, employee, scheduleData, year, month, ret, wd, now, store, upload>>

(* previousMonth / nextMonth: setCurrentDate, loadEmployeeData(), and the   *)
(* watcher of [currentYear, currentMonth] that loads both again; the months *)
(* visited are April to June 2025                                           *)
Navigate(date) ==
    /\ view.mounted /\ view.started
    /\ view.actions < MaxActions
    /\ getFullYear(date) = 2025 /\ getMonth(date) + 1 \in 4..6
    /\ store' = [store EXCEPT !.currentDate = date]
    /\ view' = [view EXCEPT !.actions = @ + 1,
                            !.console = << >>,
                            !.requests = @ \o << EmployeeRequest(store', FALSE),
                                                 EmployeeRequest(store', TRUE) >>]
    /\ UNCHANGED <<company, employee, scheduleData, year, month, ret, wd, now, upload>>

previousMonth == Navigate(NewDate(currentYear(store), currentMonth(store) - 2, 1))

nextMonth == Navigate(NewDate(currentYear(store), currentMonth(store), 1))

(* setSelectedAlgorithm and the watcher of scheduleStore.selectedAlgorithm *)
SelectAlgorithm ==
    /\ view.mounted /\ view.started
    /\ view.actions < MaxActions
    /\ \E algorithm \in Algorithms \ {store.selectedAlgorithm} :
          /\ store' = [store EXCEPT !.selectedAlgorithm = algorithm]
          /\ view' = [view EXCEPT !.actions = @ + 1,
                                  !.console = << >>,
                                  !.requests = Append(@, EmployeeRequest(store', TRUE))]
    /\ UNCHANGED <<company, employee, scheduleData, year, month, ret, wd, now, upload>>

(* loadEmployeeData after its await, the response being OK: the statistics  *)
(* are computed with currentYear.value and currentMonth.value as they are   *)
(* when the response arrives                                                *)
(* (const stats is a value computed once from the values of the computed    *)
(* refs, bound here as elements of one-element sets)                        *)
TryEmployeeData(v, data, st) ==
    CHOOSE w \in
        { [v EXCEPT !.console          = << >>,
                    !.employeeData     = data,
                    !.employeeSchedule = data.schedule_data,
                    !.employeeStats    = stats,
                    !.weeklyWorkload   = stats.weekly_workload] :
            stats \in { calculateEmployeeStatistics(company, data.employee,
                                                    data.schedule_data, y, m) :
                          y \in {currentYear(st)}, m \in {currentMonth(st)} } } :
        TRUE

(* the catch block of loadEmployeeData, without its resets of the stats *)
CatchEmployeeDataKeepStats(v) ==
    [v EXCEPT !.console          = << "Error loading employee data:" >>,
              !.employeeData     = Null,
              !.employeeSchedule = << >>]

(* the catch block of loadEmployeeData *)
CatchEmployeeData(v) ==
    [v EXCEPT !.console          = << "Error loading employee data:" >>,
              !.employeeData     = Null,
              !.employeeSchedule = << >>,
              !.employeeStats    = NoStats,
              !.weeklyWorkload   = << >>]

EmployeeResponse ==
    /\ view.mounted
    /\ \E i \in 1..Len(view.requests) :
          /\ view.requests[i].kind = "schedule"
          /\ view' = [TryEmployeeData(view, ServerResponse(view.requests[i]), store)
                         EXCEPT !.requests = Continue(view.requests, i, store)]
    /\ UNCHANGED <<company, employee, scheduleData, year, month, ret, wd, now, store, upload>>

(* the fetch rejects or the status is not OK *)
EmployeeFailure ==
    /\ view.mounted
    /\ \E i \in 1..Len(view.requests) :
          /\ view.requests[i].kind = "schedule"
          /\ view' = [CatchEmployeeData(view)
                         EXCEPT !.requests = Continue(view.requests, i, store)]
    /\ UNCHANGED <<company, employee, scheduleData, year, month, ret, wd, now, store, upload>>

(* loadYearlyData after its await *)
TryYearlyData(v, data, st) ==
    CHOOSE w \in
        { [v EXCEPT !.console = << >>, !.yearlyData =
              [ employee          |-> data.employee,
                schedule_data     |-> data.schedule_data,
                yearly_statistics |-> yearlyStats,
                monthly_breakdown |-> yearlyStats.monthly_breakdown ]] :
            yearlyStats \in { calculateYearlyStatistics(company, data.employee,
                                                        data.schedule_data, y) :
                                y \in {currentYear(st)} } } :
        TRUE

(* the catch block of loadYearlyData that keeps the data *)
CatchYearlyDataKeep(v) ==
    [v EXCEPT !.console = << "Error loading yearly data:" >>]

(* the catch block of loadYearlyData *)
CatchYearlyData(v) ==
    [v EXCEPT !.console    = << "Error loading yearly data:" >>,
              !.yearlyData = Null]

YearlyResponse ==
    /\ view.mounted
    /\ \E i \in 1..Len(view.requests) :
          /\ view.requests[i].kind = "yearly"
          /\ view' = [TryYearlyData(view, ServerYearlyResponse(view.requests[i]), store)
                         EXCEPT !.requests = Without(view.requests, i)]
    /\ UNCHANGED <<company, employee, scheduleData, year, month, ret, wd, now, store, upload>>

YearlyFailure ==
    /\ view.mounted
    /\ \E i \in 1..Len(view.requests) :
          /\ view.requests[i].kind = "yearly"
          /\ view' = [CatchYearlyData(view) EXCEPT !.requests = Without(view.requests, i)]
    /\ UNCHANGED <<company, employee, scheduleData, year, month, ret, wd, now, store, upload>>

InitView ==
    /\ now = NewDate(2025, 4, 2)
    /\ store = NewStore(now)
    /\ view = NewView
    /\ upload = NoUpload
    /\ company = [sunday_is_workday |-> FALSE]
    /\ employee = DefaultEmployee
    /\ scheduleData = << >>
    /\ year = currentYear(store)
    /\ month = currentMonth(store)
    /\ ret = NoCall
    /\ wd = NoFrame

NextView ==
    \/ OnMounted
    \/ previousMonth
    \/ nextMonth
    \/ SelectAlgorithm
    \/ EmployeeResponse
    \/ EmployeeFailure
    \/ YearlyResponse
    \/ YearlyFailure

SpecView == InitView /\ [][NextView]_vars

-----------------------------------------------------------------------------
(* The week filter of calculateWeeklyWorkload, with its locals *)

(* Faulty variant: an entry at the very start of the week is left out *)
WeekEntriesAfterStart(data, currentWeek, weekEnd) ==
    { i \in 1..Len(data) :
        LET entryDate == parseISO(data[i].date)
        IN  /\ DateLE(currentWeek, entryDate) /\ entryDate # currentWeek
            /\ DateLE(entryDate, weekEnd) }

(* weekEntries: the positions of the entries that pass the filter *)
WeekEntries(data, currentWeek, weekEnd) ==
    { i \in 1..Len(data) :
        LET entryDate == parseISO(data[i].date)
        IN  DateLE(currentWeek, entryDate) /\ DateLE(entryDate, weekEnd) }

(* weekHours: the reduce over weekEntries, in list order *)
RECURSIVE WeekEntriesHours(_, _, _)
WeekEntriesHours(data, weekEntries, n) ==
    IF n = 0 THEN Zero
    ELSE IF n \in weekEntries
         THEN RatAdd(WeekEntriesHours(data, weekEntries, n - 1),
                     calculateShiftHours(data[n].shift))
         ELSE WeekEntriesHours(data, weekEntries, n - 1)

(* The while loop with weekEntries and weekHours of each iteration kept *)
RECURSIVE WeeklyLocalsLoop(_, _, _, _)
WeeklyLocalsLoop(data, currentWeek, lastDay, locals) ==
    IF DateLE(currentWeek, lastDay)
    THEN LET weekEnd     == endOfWeek(currentWeek)
             weekEntries == WeekEntries(data, currentWeek, weekEnd)
             weekHours   == WeekEntriesHours(data, weekEntries, Len(data))
         IN  WeeklyLocalsLoop(data, setDate(currentWeek, getDate(currentWeek) + 7), lastDay,
                              Append(locals, [ currentWeek |-> currentWeek,
                                               weekEnd     |-> weekEnd,
                                               weekEntries |-> weekEntries,
                                               weekHours   |-> weekHours,
                                               pushed      |-> round(weekHours, 3) ]))
    ELSE locals

(* Entries of the target month on any of its days, a second one also on the *)
(* day before the month                                                     *)
DaysOfMonth(y, m) == { Iso(y, m, d) : d \in 1..DaysInMonth(y, m) }

BucketLists(y, m) ==
    { << >> }
    \cup { << [date |-> a, shift |-> s] >> : a \in DaysOfMonth(y, m), s \in Shifts }
    \cup { << [date |-> a, shift |-> BaseEntry(y, m).shift],
              [date |-> b, shift |-> CHOOSE s \in Shifts : s.name = "night"] >> :
             a \in DaysOfMonth(y, m), b \in DaysOfMonth(y, m) \cup {IsoBefore(y, m)} }

CallWeeklyWorkloadLocals ==
    /\ ret = NoCall
    /\ ret' = [op |-> "calculateWeeklyWorkload",
               value |-> calculateWeeklyWorkload(scheduleData, year, month),
               locals |-> WeeklyLocalsLoop(scheduleData,
                                           startOfWeek(NewDate(year, month - 1, 1)),
                                           NewDate(year, month, 0), << >>),
               total_hours |-> calculateTotalHours(scheduleData)]
    /\ UNCHANGED <<company, employee, scheduleData, year, month, wd, now, store, view, upload>>

(* Faulty variant: the grid begins on the first of the month *)
calendarDaysFromMonthStart(st) ==
    LET monthStart == startOfMonth(NewDate(currentYear(st), currentMonth(st) - 1, 1))
    IN  eachDayOfInterval(monthStart, endOfWeek(endOfMonth(monthStart)))

(* days of getCalendarWeeks: the dates the grid is cut from *)
calendarDays(st) ==
    LET monthStart == startOfMonth(NewDate(currentYear(st), currentMonth(st) - 1, 1))
    IN  eachDayOfInterval(startOfWeek(monthStart), endOfWeek(endOfMonth(monthStart)))

(* The grid of the store's month and the weeks of calculateWeeklyWorkload   *)
(* for the same year and month, side by side; rows are the slices of days   *)
CallWeeksOfMonth ==
    /\ ret = NoCall
    /\ store.constructed
    /\ ret' = [op |-> "weeksOfMonth",
               grid |-> getCalendarWeeks(store),
               rows |-> [r \in 1..((Len(calendarDays(store)) + 6) \div 7) |->
                            slice(calendarDays(store), 7 * (r - 1), 7 * r)],
               locals |-> WeeklyLocalsLoop(
                              << >>,
                              startOfWeek(NewDate(currentYear(store),
                                                  currentMonth(store) - 1, 1)),
                              NewDate(currentYear(store), currentMonth(store), 0), << >>)]
    /\ UNCHANGED <<company, employee, scheduleData, year, month, wd, now, store, view, upload>>

InitBuckets ==
    /\ company = [sunday_is_workday |-> FALSE]
    /\ employee = DefaultEmployee
    /\ year \in Years
    /\ month \in Months
    /\ scheduleData \in BucketLists(year, month)
    /\ ret = NoCall
    /\ wd = NoFrame
    /\ now = Epoch
    /\ store = NoStore
    /\ view = NoView
    /\ upload = NoUpload

NextBuckets ==
    \/ CallWeeklyWorkloadLocals
    \/ CallWeeklyWorkload
    \/ TakeResult

SpecBuckets == InitBuckets /\ [][NextBuckets]_vars

NextGridWeeks == CallWeeksOfMonth \/ CallCalendarWeeks \/ TakeResult

SpecGridWeeks == InitCalendar /\ [][NextGridWeeks]_vars

-----------------------------------------------------------------------------
(* The four loaders of the store, overlapping: each sets the shared loading *)
(* flag and clears the shared error when it starts, and clears the flag in  *)
(* its finally block                                                        *)

(* A loader: the ref it fills, its count of calls in flight, its message *)
Loaders ==
    { [data |-> "scheduleData", pending |-> "pending",
       message |-> "Failed to load schedule data"],
      [data |-> "dayScheduleData", pending |-> "pendingDay",
       message |-> "Failed to load day schedule data"],
      [data |-> "employeeScheduleData", pending |-> "pendingEmployee",
       message |-> "Failed to load employee schedule data"],
      [data |-> "employeeYearlyData", pending |-> "pendingYearly",
       message |-> "Failed to load employee yearly data"] }

(* a loader up to its await *)
LoadStart(loader) ==
    /\ store[loader.pending] < MaxPending
    /\ store' = [store EXCEPT !.loading = TRUE, !.error = Null,
                              ![loader.pending] = @ + 1]
    /\ UNCHANGED <<company, employee, scheduleData, year, month, ret, wd, now, view, upload>>

(* the response arrives: the rest of the try block, and finally *)
LoadResponse(loader) ==
    /\ store[loader.pending] > 0
    /\ \E data \in Responses :
          store' = [store EXCEPT ![loader.data] = data, !.loading = FALSE,
                                 ![loader.pending] = @ - 1]
    /\ UNCHANGED <<company, employee, scheduleData, year, month, ret, wd, now, view, upload>>

(* the request fails: catch and finally *)
LoadFailure(loader) ==
    /\ store[loader.pending] > 0
    /\ store' = [store EXCEPT !.error = [message |-> loader.message], !.loading = FALSE,
                              ![loader.pending] = @ - 1]
    /\ UNCHANGED <<company, employee, scheduleData, year, month, ret, wd, now, view, upload>>

InitLoads ==
    /\ now = ClockStart
    /\ store = NewStore(now)
    /\ view = NoView
    /\ upload = NoUpload
    /\ company = [sunday_is_workday |-> FALSE]
    /\ employee = DefaultEmployee
    /\ scheduleData = << >>
    /\ year = currentYear(store)
    /\ month = currentMonth(store)
    /\ ret = NoCall
    /\ wd = NoFrame

NextLoads ==
    \/ \E loader \in Loaders : LoadStart(loader)
    \/ \E loader \in Loaders : LoadResponse(loader)
    \/ \E loader \in Loaders : LoadFailure(loader)

SpecLoads == InitLoads /\ [][NextLoads]_vars

-----------------------------------------------------------------------------
(* The benchmark upload view (src/src/views/UploadBenchmark.vue) *)

(* Uploads in flight at once (a drop is accepted while another upload runs) *)
(* and progress timers running at once                                     *)
MaxUploads == 2

(* File names, as the sequences of their characters *)
FileNames ==
    { << "r", ".", "z", "i", "p" >>, << "r", ".", "c", "s", "v" >>,
      << "r", ".", "Z", "I", "P" >>, << "z", "i", "p" >> }

(* String.prototype.endsWith *)
endsWith(name, suffix) ==
    /\ Len(name) >= Len(suffix)
    /\ SubSeq(name, Len(name) - Len(suffix) + 1, Len(name)) = suffix

DotZip == << ".", "z", "i", "p" >>

EmptySummary == [companies_imported |-> 0, errors |-> << >>]

(* response.import_summary of a successful upload *)
ImportSummaries ==
    { [companies_imported |-> 1, errors |-> << >>],
      [companies_imported |-> 0, errors |-> << "no company" >>] }

(* The refs of setup(); intervals are the progress timers that run, pending *)
(* the upload requests in flight, unhandled whether a call of uploadFile    *)
(* has ended by throwing                                                    *)
NewUpload ==
    [ mounted        |-> TRUE,
      isDragOver     |-> FALSE,
      uploading      |-> FALSE,
      uploadComplete |-> FALSE,
      uploadProgress |-> 0,
      error          |-> "",
      importSummary  |-> EmptySummary,
      intervals      |-> 0,
      pending        |-> 0,
      unhandled      |-> FALSE ]

(* uploadFile up to its await *)
uploadFile(u, file) ==
    IF ~endsWith(file.name, DotZip)
    THEN [u EXCEPT !.error = "Please select a ZIP file"]
    ELSE [u EXCEPT !.uploading      = TRUE,
                   !.uploadComplete = FALSE,
                   !.error          = "",
                   !.uploadProgress = 0,
                   !.intervals      = @ + 1,
                   !.pending        = @ + 1]

(* the file input, shown while nothing is uploading or complete *)
HandleFileSelect ==
    /\ upload.mounted
    /\ ~upload.uploading /\ ~upload.uploadComplete
    /\ upload.pending < MaxUploads /\ upload.intervals < MaxUploads
    /\ \E name \in FileNames : upload' = uploadFile(upload, [name |-> name])
    /\ UNCHANGED <<company, employee, scheduleData, year, month, ret, wd, now, store, view>>

(* a drop on the upload area, which is always shown *)
HandleDrop ==
    /\ upload.mounted
    /\ upload.pending < MaxUploads /\ upload.intervals < MaxUploads
    /\ \E files \in { << >> } \cup { << [name |-> name] >> : name \in FileNames } :
          upload' = IF Len(files) > 0
                    THEN IF endsWith(files[1].name, DotZip)
                         THEN uploadFile([upload EXCEPT !.isDragOver = FALSE], files[1])
                         ELSE [upload EXCEPT !.isDragOver = FALSE,
                                             !.error = "Please select a ZIP file"]
                    ELSE [upload EXCEPT !.isDragOver = FALSE]
    /\ UNCHANGED <<company, employee, scheduleData, year, month, ret, wd, now, store, view>>

(* @dragover / @dragleave *)
DragOver ==
    /\ upload.mounted
    /\ \E over \in BOOLEAN : upload' = [upload EXCEPT !.isDragOver = over]
    /\ UNCHANGED <<company, employee, scheduleData, year, month, ret, wd, now, store, view>>

(* the callback of setInterval *)
ProgressTick ==
    /\ upload.mounted
    /\ upload.intervals > 0
    /\ upload.uploadProgress < 90
    /\ upload' = [upload EXCEPT !.uploadProgress = @ + 10]
    /\ UNCHANGED <<company, employee, scheduleData, year, month, ret, wd, now, store, view>>

(* the request resolves: the rest of the try block *)
UploadResponse ==
    /\ upload.mounted
    /\ upload.pending > 0
    /\ \E summary \in ImportSummaries :
          upload' = [upload EXCEPT !.intervals      = @ - 1,
                                   !.uploadProgress = 100,
                                   !.importSummary  = summary,
                                   !.uploading      = FALSE,
                                   !.uploadComplete = TRUE,
                                   !.pending        = @ - 1]
    /\ UNCHANGED <<company, employee, scheduleData, year, month, ret, wd, now, store, view>>

(* The request rejects.  The catch block begins with                        *)
(* clearInterval(progressInterval), but progressInterval is a const of the  *)
(* try block and is not in scope in the catch block: the statement throws a *)
(* ReferenceError, nothing after it runs, and uploadFile ends by throwing.  *)
UploadFailure ==
    /\ upload.mounted
    /\ upload.pending > 0
    /\ upload' = [upload EXCEPT !.pending = @ - 1, !.unhandled = TRUE]
    /\ UNCHANGED <<company, employee, scheduleData, year, month, ret, wd, now, store, view>>

(* the button of the completed upload *)
resetUpload ==
    /\ upload.mounted
    /\ upload.uploadComplete
    /\ upload' = [upload EXCEPT !.uploadComplete = FALSE,
                                !.uploadProgress = 0,
                                !.error          = "",
                                !.importSummary  = EmptySummary]
    /\ UNCHANGED <<company, employee, scheduleData, year, month, ret, wd, now, store, view>>

InitUpload ==
    /\ upload = NewUpload
    /\ view = NoView
    /\ store = NoStore
    /\ now = Epoch
    /\ company = [sunday_is_workday |-> FALSE]
    /\ employee = DefaultEmployee
    /\ scheduleData = << >>
    /\ year \in {2025}
    /\ month \in {1}
    /\ ret = NoCall
    /\ wd = NoFrame

NextUpload ==
    \/ HandleFileSelect
    \/ HandleDrop
    \/ DragOver
    \/ ProgressTick
    \/ UploadResponse
    \/ UploadFailure
    \/ resetUpload

SpecUpload == InitUpload /\ [][NextUpload]_vars

-----------------------------------------------------------------------------
(* The day count of a date (a Julian day number), without the Date model *)
Ordinal(iso) ==
    LET a  == IF iso.m <= 2 THEN 1 ELSE 0
        yy == iso.y + 4800 - a
        mm == iso.m + 12 * a - 3
    IN  iso.d + (153 * mm + 2) \div 5 + 365 * yy + yy \div 4 - yy \div 100
          + yy \div 400 - 32045

(* The Monday of the week of the first of the month, the Sunday of the week *)
(* of its last day, and the number of Monday-to-Sunday weeks from one to    *)
(* the other                                                                *)
FirstMonday(y, m) == Ordinal(Iso(y, m, 1)) - ((Weekday(y, m, 1) + 6) % 7)

LastSunday(y, m) ==
    Ordinal(Iso(y, m, MonthLength(y, m))) + ((7 - Weekday(y, m, MonthLength(y, m))) % 7)

WeeksOfMonth(y, m) == (LastSunday(y, m) - FirstMonday(y, m) + 1) \div 7

(* The entry list as the claims read it (no list is the empty list) *)
Data == IF scheduleData = NoData THEN << >> ELSE scheduleData

(* The hours of the entries of list at the positions S, added up *)
RECURSIVE HoursAt(_, _)
HoursAt(list, S) ==
    IF S = {} THEN Zero
    ELSE LET i == CHOOSE i \in S : TRUE
         IN  RatAdd(calculateShiftHours(list[i].shift), HoursAt(list, S \ {i}))

RatSub(a, b) == RatAdd(a, Rat(-b.n, b.d))

RatAbs(a) == Rat(Abs(a.n), a.d)

(* b is x rounded to 3 decimals: a whole number of thousandths at most half *)
(* a thousandth away from x                                                 *)
IsRounded3(b, x) == 1000 % b.d = 0 /\ RatLE(RatAbs(RatSub(b, x)), Rat(1, 2000))

(* the positions of list dated in Monday-to-Sunday week k (1, 2, ..) of the *)
(* weeks of month m of year y                                               *)
PositionsInWeek(list, y, m, k) ==
    { i \in 1..Len(list) :
        /\ FirstMonday(y, m) + 7 * (k - 1) <= Ordinal(list[i].date)
        /\ Ordinal(list[i].date) <= FirstMonday(y, m) + 7 * (k - 1) + 6 }

PositionsInMonth(list, y, m) ==
    { i \in 1..Len(list) : list[i].date.y = y /\ list[i].date.m = m }

PositionsInYear(list, y) == { i \in 1..Len(list) : list[i].date.y = y }

RECURSIVE SumHours(_, _)
SumHours(hours, S) ==
    IF S = {} THEN Zero
    ELSE LET i == CHOOSE i \in S : TRUE
         IN  RatAdd(hours[i], SumHours(hours, S \ {i}))

-----------------------------------------------------------------------------
(* C1: for a non-empty entry list calculateEmployeeStatistics and           *)
(* calculateYearlyStatistics return total_hours = the sum of the shift      *)
(* durations of all entries, total_shifts = the number of entries and       *)
(* average_hours_per_shift = total_hours / total_shifts; for an empty list  *)
(* the average is 0 (nothing is divided by zero).                           *)
C1_TotalsAndAverage ==
    ret.op \in {"calculateEmployeeStatistics", "calculateYearlyStatistics"} =>
        IF Len(Data) > 0
        THEN /\ ret.value.total_hours = HoursAt(Data, 1..Len(Data))
             /\ ret.value.total_shifts = Len(Data)
             /\ RatMul(ret.value.average_hours_per_shift, RatOfInt(Len(Data)))
                   = ret.value.total_hours
        ELSE /\ ret.value.average_hours_per_shift = Zero
             /\ ret.value.total_hours = Zero
             /\ ret.value.total_shifts = 0

(* Two entries of 8 h and 8 h 20 min: 49/3 hours, 2 shifts, 49/6 on average *)
C1_Witness ==
    /\ ret.op = "calculateYearlyStatistics"
    /\ Len(Data) = 2
    /\ ret.value.total_hours = [n |-> 49, d |-> 3]
    /\ ret.value.total_shifts = 2
    /\ ret.value.average_hours_per_shift = [n |-> 49, d |-> 6]

-----------------------------------------------------------------------------
(* C2: calculateWeeklyWorkload returns, in chronological order, one bucket  *)
(* for each Monday-to-Sunday week from the week of the 1st of the month to  *)
(* the week of its last day; bucket k is, rounded to 3 decimals, the sum of *)
(* the durations of exactly the entries dated in week k, its Monday and its *)
(* Sunday included, entries of the adjacent month on those days included.   *)
C2_WeeklyBuckets ==
    ret.op = "calculateWeeklyWorkload" =>
        /\ Len(ret.value) = WeeksOfMonth(year, month)
        /\ \A k \in 1..Len(ret.value) :
              IsRounded3(ret.value[k],
                         HoursAt(Data, PositionsInWeek(Data, year, month, k)))

(* March 2025 (six weeks, 24 Feb .. 6 Apr): the entry of Friday 28 Feb is   *)
(* in bucket 1, the entry of Monday 31 Mar (8 h 20 min) in bucket 6.        *)
C2_Witness ==
    /\ ret.op = "calculateWeeklyWorkload"
    /\ year = 2025 /\ month = 3
    /\ Len(Data) = 2
    /\ Data[1].date = Iso(2025, 2, 28) /\ Data[2].date = Iso(2025, 3, 31)
    /\ ret.value = << [n |-> 8, d |-> 1], Zero, Zero, Zero, Zero, [n |-> 8333, d |-> 1000] >>

-----------------------------------------------------------------------------
(* C3 as claimed: for entries all dated in the target year, the sum of the  *)
(* 12 values of monthly_breakdown.hours equals total_hours.                 *)
C3_BreakdownSumEqualsTotal ==
    ( /\ ret.op = "calculateYearlyStatistics"
      /\ PositionsInYear(Data, year) = 1..Len(Data) ) =>
        SumHours(ret.value.monthly_breakdown.hours, 0..11) = ret.value.total_hours

(* C3 as amended: for entries all dated in the target year, the sum of the  *)
(* 12 values of monthly_breakdown.hours (each rounded to 3 decimals)        *)
(* differs from total_hours by at most 0.0005 for each month that has an    *)
(* entry, and equals it when every shift duration is a whole number of      *)
(* thousandths of an hour.                                                  *)
C3_BreakdownSumNearTotal ==
    ( /\ ret.op = "calculateYearlyStatistics"
      /\ PositionsInYear(Data, year) = 1..Len(Data) ) =>
        LET sum    == SumHours(ret.value.monthly_breakdown.hours, 0..11)
            months == { Data[i].date.m : i \in 1..Len(Data) }
        IN  /\ RatLE(RatAbs(RatSub(sum, ret.value.total_hours)),
                     Rat(Cardinality(months), 2000))
            /\ (\A i \in 1..Len(Data) : 1000 % calculateShiftHours(Data[i].shift).d = 0)
                  => sum = ret.value.total_hours

(* Two entries of 8 h 20 min in one month of the target year: total_hours   *)
(* is 50/3, the breakdown holds 16.667                                      *)
C3_Witness ==
    /\ ret.op = "calculateYearlyStatistics"
    /\ PositionsInYear(Data, year) = 1..Len(Data)
    /\ ret.value.total_hours = [n |-> 50, d |-> 3]
    /\ SumHours(ret.value.monthly_breakdown.hours, 0..11) = [n |-> 16667, d |-> 1000]

-----------------------------------------------------------------------------
(* C4: calculateMonthlyBreakdown returns an hours and a shifts array        *)
(* indexed 0..11; index m holds the number and the hours (rounded to 3      *)
(* decimals) of exactly the entries dated in month m + 1 of the target      *)
(* year; an entry dated in another year changes neither array.              *)
OtherYearEntries ==
    [date : {Iso(year - 1, 12, 31), Iso(year + 1, month, 1)}, shift : Shifts]

C4_MonthlyBreakdown ==
    ret.op = "calculateMonthlyBreakdown" =>
        /\ DOMAIN ret.value.hours = 0..11
        /\ DOMAIN ret.value.shifts = 0..11
        /\ \A m \in 0..11 :
              /\ ret.value.shifts[m] = Cardinality(PositionsInMonth(Data, year, m + 1))
              /\ IsRounded3(ret.value.hours[m],
                            HoursAt(Data, PositionsInMonth(Data, year, m + 1)))
        /\ \A e \in OtherYearEntries :
              calculateMonthlyBreakdown(Append(Data, e), year) = ret.value

(* January 2025 with an entry of 31 Dec 2024 and an entry of 31 Jan 2025:   *)
(* one shift in index 0, none elsewhere.                                    *)
C4_Witness ==
    /\ ret.op = "calculateMonthlyBreakdown"
    /\ year = 2025 /\ month = 1
    /\ Len(Data) = 2
    /\ Data[1].date = Iso(2024, 12, 31) /\ Data[2].date = Iso(2025, 1, 31)
    /\ ret.value.shifts = [m \in 0..11 |-> IF m = 0 THEN 1 ELSE 0]
    /\ ret.value.hours[0] = calculateShiftHours(Data[2].shift)
    /\ ret.value.hours[0] # Zero

-----------------------------------------------------------------------------
(* C5 reads the statistics of the entry list with one more entry, or of the *)
(* employee with one more absence, dated outside the queried period.        *)

(* Dates outside the target month: the day before it, the first of the same *)
(* month a year later                                                       *)
DatesOutsideMonth == { IsoBefore(year, month), Iso(year + 1, month, 1) }

DatesOutsideYear == { Iso(year - 1, 12, 31), Iso(year + 1, month, 1) }

(* The shift of the added entry: 8 hours 20 minutes *)
ProbeShifts == { sh \in Shifts : sh.name = "long" }

OutsideWeeks(iso) ==
    \/ Ordinal(iso) < FirstMonday(year, month)
    \/ Ordinal(iso) > LastSunday(year, month)

WithAbsence(emp, iso) ==
    [emp EXCEPT !.absences = IF @ = NoAbsences THEN << iso >> ELSE Append(@, iso)]

(* The employee of the state, without absences or absent on the first of    *)
(* the target month, with one more absence outside the month (year)         *)
ProbeEmployees ==
    { [employee EXCEPT !.absences = base] : base \in {<< >>, << Iso(year, month, 1) >>} }

AbsenceOutsideMonthIsIgnored ==
    \A emp \in ProbeEmployees : \A iso \in DatesOutsideMonth :
        calculateExpectedMonthlyHours(company, WithAbsence(emp, iso), year, month)
          = calculateExpectedMonthlyHours(company, emp, year, month)

AbsenceOutsideYearIsIgnored ==
    \A emp \in ProbeEmployees : \A iso \in DatesOutsideYear :
        calculateExpectedYearlyHours(company, WithAbsence(emp, iso), year)
          = calculateExpectedYearlyHours(company, emp, year)

(* C5 as claimed: an added entry dated outside the target month (year)      *)
(* leaves every aggregate of the monthly (yearly) statistics unchanged, and *)
(* an absence dated outside the period leaves the expected hours unchanged  *)
(* (read here for non-empty entry lists only).                              *)
C5_OutsideEntryChangesNothing ==
    /\ (ret.op = "calculateEmployeeStatistics" /\ Len(Data) > 0) =>
          /\ \A e \in [date : DatesOutsideMonth, shift : ProbeShifts] :
                calculateEmployeeStatistics(company, employee, Append(Data, e), year, month)
                  = ret.value
          /\ AbsenceOutsideMonthIsIgnored
    /\ (ret.op = "calculateYearlyStatistics" /\ Len(Data) > 0) =>
          /\ \A e \in [date : DatesOutsideYear, shift : ProbeShifts] :
                calculateYearlyStatistics(company, employee, Append(Data, e), year)
                  = ret.value
          /\ AbsenceOutsideYearIsIgnored

(* C5 as amended: added to a non-empty entry list, an entry dated outside   *)
(* the target year leaves monthly_breakdown and max_yearly_hours unchanged, *)
(* and an entry dated outside every Monday-to-Sunday week that overlaps the *)
(* target month leaves weekly_workload unchanged; total_shifts and          *)
(* total_hours are taken over all entries passed and count the added entry  *)
(* (total_shifts grows by 1, total_hours by its duration).  An absence      *)
(* dated outside the period leaves the expected hours unchanged.            *)
C5_OutsideEntryLeavesBuckets ==
    /\ (ret.op = "calculateEmployeeStatistics" /\ Len(Data) > 0) =>
          /\ \A e \in [date : DatesOutsideMonth, shift : ProbeShifts] :
                LET with == calculateEmployeeStatistics(company, employee,
                                                        Append(Data, e), year, month)
                IN  /\ OutsideWeeks(e.date)
                          => with.weekly_workload = ret.value.weekly_workload
                    /\ with.total_shifts = ret.value.total_shifts + 1
                    /\ with.total_hours
                          = RatAdd(ret.value.total_hours, calculateShiftHours(e.shift))
          /\ AbsenceOutsideMonthIsIgnored
    /\ (ret.op = "calculateYearlyStatistics" /\ Len(Data) > 0) =>
          /\ \A e \in [date : DatesOutsideYear, shift : ProbeShifts] :
                LET with == calculateYearlyStatistics(company, employee,
                                                      Append(Data, e), year)
                IN  /\ with.monthly_breakdown = ret.value.monthly_breakdown
                    /\ with.max_yearly_hours = ret.value.max_yearly_hours
                    /\ with.total_shifts = ret.value.total_shifts + 1
                    /\ with.total_hours
                          = RatAdd(ret.value.total_hours, calculateShiftHours(e.shift))
          /\ AbsenceOutsideYearIsIgnored

(* September 2025 begins on a Monday: 31 Aug is outside its weeks.  The     *)
(* statistics of a list with one entry of 8 hours on 1 Sep are computed.    *)
C5_Witness ==
    /\ ret.op = "calculateEmployeeStatistics"
    /\ year = 2025 /\ month = 9
    /\ Len(Data) = 1 /\ Data[1].date = Iso(2025, 9, 1)
    /\ OutsideWeeks(IsoBefore(year, month))
    /\ ret.value.total_hours = [n |-> 8, d |-> 1]
    /\ ret.value.weekly_workload[1] = [n |-> 8, d |-> 1]

-----------------------------------------------------------------------------
(* C6: a date the loop of getWorkingDaysInMonth passes is counted as a      *)
(* working day if and only if it is not a Saturday, not a Sunday while      *)
(* sunday_is_workday is false, and not one of the fixed holidays 1 Jan,     *)
(* 1 May, 3 Oct, 25 Dec, 26 Dec; so a holiday is not counted even when      *)
(* sunday_is_workday is true (25 Dec 2025) and a Saturday is not counted    *)
(* for either flag value (7 Jun 2025).                                      *)
C6_WorkingDayIff ==
    wd.pc \in {"loop", "return"} =>
        /\ \A i \in 1..Len(wd.visited) :
              LET c == Civil(wd.visited[i])
              IN  wd.visited[i] \in wd.counted
                    <=> IsWorkingDate(c.y, c.m, c.d, company.sunday_is_workday)
        /\ wd.counted \subseteq { wd.visited[i] : i \in 1..Len(wd.visited) }
        /\ (year = 2025 /\ month = 12 /\ Len(wd.visited) >= 25)
              => wd.visited[25] \notin wd.counted
        /\ (year = 2025 /\ month = 6 /\ Len(wd.visited) >= 7)
              => wd.visited[7] \notin wd.counted

(* December 2025 with Sunday a workday, loop finished: Sunday 7 Dec was     *)
(* counted, the holiday Thursday 25 Dec and Saturday 6 Dec were not.        *)
C6_Witness ==
    /\ wd.pc = "return"
    /\ year = 2025 /\ month = 12 /\ company.sunday_is_workday
    /\ Len(wd.visited) = 31
    /\ wd.visited[7] \in wd.counted
    /\ wd.visited[25] \notin wd.counted
    /\ wd.visited[6] \notin wd.counted

-----------------------------------------------------------------------------
(* C7: the day-stepping loop of getWorkingDaysInMonth passes the dates      *)
(* 1, 2, .. of the target month in order, each once, never more than the    *)
(* month has (28, 29, 30 or 31); it ends, and at its end it has passed      *)
(* every date of the month and returns the number of passed dates that are  *)
(* working days.  The yearly total is the sum of these counts over the      *)
(* twelve months, the number of working dates of the year.                  *)
C7_LoopInv ==
    /\ wd.pc \in {"loop", "return"} =>
          /\ Len(wd.visited) <= MonthLength(year, month)
          /\ \A i \in 1..Len(wd.visited) :
                Civil(wd.visited[i]) = [y |-> year, m |-> month, d |-> i]
          /\ wd.workingDays = Cardinality(wd.counted)
    /\ wd.pc = "return" =>
          /\ Len(wd.visited) = MonthLength(year, month)
          /\ wd.workingDays =
                Cardinality(WorkingDatesOfMonth(year, month, company.sunday_is_workday))
    /\ ret.op = "getWorkingDaysInMonth" =>
          ret.value = Cardinality(WorkingDatesOfMonth(year, month, company.sunday_is_workday))
    /\ ret.op = "totalWorkingDays" =>
          ret.value = Cardinality({ md \in Months \X (1..31) :
                                      /\ md[2] <= MonthLength(year, md[1])
                                      /\ IsWorkingDate(year, md[1], md[2],
                                                       company.sunday_is_workday) })

C7_LoopVisitsEachDateOnceAndEnds ==
    /\ []C7_LoopInv
    /\ (wd.pc = "loop") ~> (wd.pc = "return")

(* February of the leap year 2024: the loop has ended after 29 dates and    *)
(* returned 21 working days.                                                *)
C7_Witness ==
    /\ wd.pc = "return"
    /\ year = 2024 /\ month = 2 /\ ~company.sunday_is_workday
    /\ Len(wd.visited) = 29
    /\ ret = [op |-> "getWorkingDaysInMonth", value |-> 21]

-----------------------------------------------------------------------------
(* The absences of the employee as the claims count them *)

AbsenceList == IF employee.absences = NoAbsences THEN << >> ELSE employee.absences

(* the positions of the absence list dated in month m of year y *)
AbsencePositionsInMonth(y, m) ==
    { i \in 1..Len(AbsenceList) : AbsenceList[i].y = y /\ AbsenceList[i].m = m }

AbsencePositionsInYear(y) == { i \in 1..Len(AbsenceList) : AbsenceList[i].y = y }

WorkingDatesOfYear(y, sundayIsWorkday) ==
    { md \in Months \X (1..31) : /\ md[2] <= MonthLength(y, md[1])
                                 /\ IsWorkingDate(y, md[1], md[2], sundayIsWorkday) }

-----------------------------------------------------------------------------
-----------------------------------------------------------------------------
(* C9: calculateExpectedYearlyHours(employee, year) equals                  *)
(* availableWorkingDays x (max_hours_per_week / 7), availableWorkingDays    *)
(* being the working days of the year minus the number of entries of the   *)
(* absence list dated in that year.                                         *)
C9_ExpectedYearlyFormula ==
    ret.op = "calculateExpectedYearlyHours" =>
        LET availableWorkingDays ==
                Cardinality(WorkingDatesOfYear(year, company.sunday_is_workday))
                  - Cardinality(AbsencePositionsInYear(year))
        IN  ret.value = RatMul(RatOfInt(availableWorkingDays),
                               Rat(employee.max_hours_per_week, 7))

(* 2025, Sundays off, 20 h per week, one absence in 2025 and one in 2024:   *)
(* 256 - 1 = 255 available days, 255 x 20 / 7 = 5100 / 7.                   *)
C9_Witness ==
    /\ ret = [op |-> "calculateExpectedYearlyHours", value |-> [n |-> 5100, d |-> 7]]
    /\ year = 2025 /\ month = 1 /\ ~company.sunday_is_workday
    /\ employee = [max_hours_per_week |-> 20,
                   absences |-> << Iso(2025, 1, 31), Iso(2024, 12, 31) >>]

-----------------------------------------------------------------------------
(* C10: getAbsencesInMonth and getAbsencesInYear return the number of       *)
(* distinct absence dates in the target month (year): a date listed several *)
(* times counts once, dates outside the period are not counted.             *)
C10_AbsencesCountDistinctDates ==
    /\ ret.op = "getAbsencesInMonth" =>
          ret.value = Cardinality({ AbsenceList[i] : i \in AbsencePositionsInMonth(year, month) })
    /\ ret.op = "getAbsencesInYear" =>
          ret.value = Cardinality({ AbsenceList[i] : i \in AbsencePositionsInYear(year) })

-----------------------------------------------------------------------------
(* C11: for every year, month, Sunday-workday flag and contracted weekly    *)
(* hours, an employee whose absence list is exactly the working days of the *)
(* month (each once) has calculateExpectedMonthlyHours equal to 0.          *)
AbsentOnExactlyTheWorkingDays ==
    /\ { AbsenceList[i] : i \in 1..Len(AbsenceList) }
          = { Iso(year, month, d) :
                d \in WorkingDatesOfMonth(year, month, company.sunday_is_workday) }
    /\ \A i, j \in 1..Len(AbsenceList) : AbsenceList[i] = AbsenceList[j] => i = j

C11_AbsentEveryWorkingDayExpectsZero ==
    (ret.op = "calculateExpectedMonthlyHours" /\ AbsentOnExactlyTheWorkingDays)
        => ret.value = Zero

(* May 2024 with Sunday a workday: 26 working days (1 May is a holiday),    *)
(* all of them absences, 20 h per week: expected hours 0.                   *)
C11_Witness ==
    /\ ret = [op |-> "calculateExpectedMonthlyHours", value |-> Zero]
    /\ year = 2024 /\ month = 5 /\ company.sunday_is_workday
    /\ employee.max_hours_per_week = 20
    /\ Len(AbsenceList) = 26
    /\ AbsentOnExactlyTheWorkingDays

-----------------------------------------------------------------------------
(* C12: calculateUtilizationPercentage(actual, expected) returns            *)
(* (actual / expected) x 100 when expected > 0 and exactly 0 when           *)
(* expected <= 0, so the result is always a finite number; the monthly and  *)
(* the yearly utilization are this operation applied to total_hours and the *)
(* expected monthly (yearly) hours.                                         *)
Utilization(actual, expected) ==
    IF expected.n > 0 THEN Rat(100 * actual.n * expected.d, actual.d * expected.n)
    ELSE Zero

IsFinite(x) == x.d > 0

C12_UtilizationGuard ==
    /\ ret.op = "calculateUtilizationPercentage" =>
          /\ ret.value = Utilization(ret.actualHours, ret.expectedHours)
          /\ IsFinite(ret.value)
    /\ (ret.op = "calculateEmployeeStatistics" /\ Len(Data) > 0) =>
          /\ ret.value.utilization_percentage
                = Utilization(ret.value.total_hours,
                              calculateExpectedMonthlyHours(company, employee, year, month))
          /\ IsFinite(ret.value.utilization_percentage)
    /\ (ret.op = "calculateYearlyStatistics" /\ Len(Data) > 0) =>
          /\ ret.value.yearly_utilization_percentage
                = Utilization(ret.value.total_hours, ret.value.max_yearly_hours)
          /\ IsFinite(ret.value.yearly_utilization_percentage)

(* February 2025, every calendar day an absence: 20 working days less 28    *)
(* absences, expected hours negative; one shift of 8 hours; utilization 0.  *)
C12_Witness ==
    /\ ret.op = "calculateEmployeeStatistics"
    /\ year = 2025 /\ month = 2 /\ ~company.sunday_is_workday
    /\ Len(AbsenceList) = 28
    /\ RatLT(calculateExpectedMonthlyHours(company, employee, year, month), Zero)
    /\ ret.value.total_hours = [n |-> 8, d |-> 1]
    /\ ret.value.utilization_percentage = Zero

-----------------------------------------------------------------------------
(* The duration of a shift as the claims state it, in minutes of the day *)

MinuteOfDay(time) == 60 * time.h + time.m

HasBothTimes(shift) == shift.start_time # NoTime /\ shift.end_time # NoTime

(* C13: for a shift with both times present, calculateShiftHours returns    *)
(* end - start in hours when end >= start and end - start + 24 when         *)
(* end < start: 22:00-06:00 and 08:00-16:00 give exactly 8, equal start and *)
(* end give 0 (not 24), and the result is always in [0, 24).                *)
C13_ShiftHours ==
    (ret.op = "calculateShiftHours" /\ HasBothTimes(ret.shift)) =>
        LET start == MinuteOfDay(ret.shift.start_time)
            end   == MinuteOfDay(ret.shift.end_time)
        IN  /\ end >= start => ret.value = Rat(end - start, 60)
            /\ end < start => ret.value = Rat(end - start + 24 * 60, 60)
            /\ end = start => ret.value = Zero
            /\ (ret.shift.start_time = Time(22, 0) /\ ret.shift.end_time = Time(6, 0))
                  => ret.value = RatOfInt(8)
            /\ (ret.shift.start_time = Time(8, 0) /\ ret.shift.end_time = Time(16, 0))
                  => ret.value = RatOfInt(8)
            /\ RatLE(Zero, ret.value) /\ RatLT(ret.value, RatOfInt(24))

(* The overnight shift 22:00-06:00 has been measured: 8 hours *)
C13_Witness ==
    /\ ret.op = "calculateShiftHours"
    /\ ret.shift.start_time = Time(22, 0) /\ ret.shift.end_time = Time(6, 0)
    /\ ret.value = [n |-> 8, d |-> 1]

-----------------------------------------------------------------------------
(* C14: when start_time or end_time of a shift is absent, calculateShiftHours *)
(* returns 0; an entry with such a shift counts as one shift in total_shifts  *)
(* (and in monthly_breakdown.shifts) and adds 0 to total_hours, to every      *)
(* weekly bucket and to every monthly_breakdown.hours value.                  *)
RECURSIVE TimedEntries(_)
TimedEntries(list) ==
    IF list = << >> THEN << >>
    ELSE (IF HasBothTimes(Head(list).shift) THEN << Head(list) >> ELSE << >>)
           \o TimedEntries(Tail(list))

C14_AbsentTimeCountsZeroHours ==
    /\ (ret.op = "calculateShiftHours" /\ ~HasBothTimes(ret.shift)) => ret.value = Zero
    /\ ret.op = "calculateEmployeeStatistics" =>
          /\ ret.value.total_shifts = Len(Data)
          /\ ret.value.total_hours = calculateTotalHours(TimedEntries(Data))
          /\ ret.value.weekly_workload
                = calculateWeeklyWorkload(TimedEntries(Data), year, month)
    /\ ret.op = "calculateYearlyStatistics" =>
          /\ ret.value.total_shifts = Len(Data)
          /\ ret.value.total_hours = calculateTotalHours(TimedEntries(Data))
          /\ ret.value.monthly_breakdown.hours
                = calculateMonthlyBreakdown(TimedEntries(Data), year).hours
          /\ SumHours([i \in 0..11 |-> RatOfInt(ret.value.monthly_breakdown.shifts[i])],
                      0..11)
                = RatOfInt(Cardinality(PositionsInYear(Data, year)))

(* March 2025: the base entry of 8 h 20 min and an entry of the same day    *)
(* with a start but no end time: 2 shifts, 25/3 hours, first week 8.333.    *)
C14_Witness ==
    /\ ret.op = "calculateEmployeeStatistics"
    /\ year = 2025 /\ month = 3
    /\ Len(Data) = 2
    /\ Data[1] = BaseEntry(2025, 3)
    /\ Data[2].date = Iso(2025, 3, 1)
    /\ Data[2].shift = [start_time |-> Time(8, 0), end_time |-> NoTime]
    /\ ret.value.total_shifts = 2
    /\ ret.value.total_hours = [n |-> 25, d |-> 3]
    /\ ret.value.weekly_workload[1] = [n |-> 8333, d |-> 1000]

-----------------------------------------------------------------------------
(* C15: when the entry list is null or empty, calculateEmployeeStatistics   *)
(* returns exactly total_hours 0, total_shifts 0, average_hours_per_shift   *)
(* 0, utilization_percentage 0 and weekly_workload [], and                  *)
(* calculateYearlyStatistics returns all scalars 0 and two arrays of twelve *)
(* zeros, for every employee, year and month.                               *)
NumberZero == [n |-> 0, d |-> 1]

C15_EmptyInputGivesZeros ==
    (scheduleData = NoData \/ scheduleData = << >>) =>
        /\ ret.op = "calculateEmployeeStatistics" =>
              ret.value = [ total_hours             |-> NumberZero,
                            total_shifts            |-> 0,
                            average_hours_per_shift |-> NumberZero,
                            utilization_percentage  |-> NumberZero,
                            weekly_workload         |-> << >> ]
        /\ ret.op = "calculateYearlyStatistics" =>
              /\ DOMAIN ret.value = { "total_hours", "total_shifts",
                                      "average_hours_per_shift", "max_yearly_hours",
                                      "yearly_utilization_percentage", "monthly_breakdown" }
              /\ ret.value.total_hours = NumberZero
              /\ ret.value.total_shifts = 0
              /\ ret.value.average_hours_per_shift = NumberZero
              /\ ret.value.max_yearly_hours = NumberZero
              /\ ret.value.yearly_utilization_percentage = NumberZero
              /\ DOMAIN ret.value.monthly_breakdown = { "hours", "shifts" }
              /\ ret.value.monthly_breakdown.hours = [i \in 0..11 |-> NumberZero]
              /\ ret.value.monthly_breakdown.shifts = [i \in 0..11 |-> 0]

(* The monthly statistics of the empty list for an employee of 20 h per     *)
(* week absent on every working day of June 2024                            *)
C15_Witness ==
    /\ ret.op = "calculateEmployeeStatistics"
    /\ scheduleData = << >>
    /\ year = 2024 /\ month = 6
    /\ employee.max_hours_per_week = 20
    /\ Len(employee.absences) = 20
    /\ ret.value.weekly_workload = << >>
    /\ ret.value.total_shifts = 0

-----------------------------------------------------------------------------
(* C16: for every year and month the week-stepping loop pushes one bucket   *)
(* for each Monday-to-Sunday week that overlaps the month, in order, and    *)
(* ends; the number of buckets is 4, 5 or 6, and is 5 for February 2025.    *)

(* The day count of day number 0 of the Date model, 1970-01-01 *)
EpochOrdinal == Ordinal(Iso(1970, 1, 1))

C16_WeekLoopInv ==
    /\ wd.pc \in {"week", "weekreturn"} =>
          /\ Len(wd.weeklyWorkload) = Len(wd.weeks)
          /\ Len(wd.weeks) <= 6
          /\ \A k \in 1..Len(wd.weeks) :
                LET monday == wd.weeks[k] + EpochOrdinal
                IN  /\ monday = FirstMonday(year, month) + 7 * (k - 1)
                    /\ monday <= Ordinal(Iso(year, month, MonthLength(year, month)))
                    /\ monday + 6 >= Ordinal(Iso(year, month, 1))
    /\ wd.pc = "weekreturn" =>
          /\ Len(wd.weeks) = WeeksOfMonth(year, month)
          /\ wd.weeklyWorkload = calculateWeeklyWorkload(scheduleData, year, month)
    /\ ret.op = "calculateWeeklyWorkload" =>
          /\ Len(ret.value) \in {4, 5, 6}
          /\ (year = 2025 /\ month = 2) => Len(ret.value) = 5

C16_WeekLoopBucketsAndEnds ==
    /\ []C16_WeekLoopInv
    /\ (wd.pc = "week") ~> (wd.pc = "weekreturn")

(* February 2025 (begins on a Saturday): five buckets, the base entry of    *)
(* Saturday 1 February in the first                                         *)
C16_Witness ==
    /\ wd.pc = "weekreturn"
    /\ year = 2025 /\ month = 2
    /\ ret.op = "calculateWeeklyWorkload"
    /\ ret.value = << [n |-> 8333, d |-> 1000], Zero, Zero, Zero, Zero >>

-----------------------------------------------------------------------------
(* C17: for every year from 2000 to 2100 and every month, every row of the  *)
(* calendar grid has exactly 7 cells, so the number of cells is a multiple  *)
(* of 7 and no partial row is emitted.                                      *)
RECURSIVE CellCount(_)
CellCount(weeks) ==
    IF weeks = << >> THEN 0 ELSE Len(Head(weeks)) + CellCount(Tail(weeks))

C17_GridRowsHaveSevenCells ==
    ret.op = "getCalendarWeeks" =>
        /\ Len(ret.value) >= 1
        /\ \A r \in 1..Len(ret.value) : Len(ret.value[r]) = 7
        /\ CellCount(ret.value) % 7 = 0

(* February 2100 (not a leap year) begins on a Monday: 4 rows, 28 cells *)
C17_Witness ==
    /\ ret.op = "getCalendarWeeks"
    /\ currentYear(store) = 2100 /\ currentMonth(store) = 2
    /\ Len(ret.value) = 4
    /\ CellCount(ret.value) = 28

-----------------------------------------------------------------------------
(* C18: the grid spans the dates from the Monday of the week of the 1st of  *)
(* the target month to the Sunday of the week of its last day, one row a    *)
(* week; a cell is null if and only if its date is outside the month; the   *)
(* non-null cells, in row order, are the days 1..N of the month, each once, *)
(* in the column of their weekday (Monday first, Sunday last).              *)
C18_GridSpanAndCells ==
    ret.op = "getCalendarWeeks" =>
        LET y     == currentYear(store)
            m     == currentMonth(store)
            N     == MonthLength(y, m)
            first == Ordinal(Iso(y, m, 1))
            grid  == ret.value
            cells == { rc \in (1..Len(grid)) \X (1..7) : grid[rc[1]][rc[2]] # Null }
        IN  /\ Len(grid) = WeeksOfMonth(y, m)
            /\ \A r \in 1..Len(grid) : Len(grid[r]) = 7
            /\ \A r \in 1..Len(grid) : \A c \in 1..7 :
                  LET o    == FirstMonday(y, m) + 7 * (r - 1) + (c - 1)
                      cell == grid[r][c]
                  IN  /\ cell = Null <=> (o < first \/ o > first + N - 1)
                      /\ cell # Null =>
                            /\ cell.day = o - first + 1
                            /\ cell.dateStr = Iso(y, m, cell.day)
                            /\ cell.date.day + EpochOrdinal = o
                            /\ Weekday(y, m, cell.day) = c % 7
            /\ Cardinality(cells) = N
            /\ { grid[rc[1]][rc[2]].day : rc \in cells } = 1..N

(* May 2025 begins on a Thursday and ends on a Saturday: 5 rows, Monday to  *)
(* Wednesday of the first row and the last Sunday are null.                 *)
C18_Witness ==
    /\ ret.op = "getCalendarWeeks"
    /\ currentYear(store) = 2025 /\ currentMonth(store) = 5
    /\ Len(ret.value) = 5
    /\ ret.value[1][1] = Null /\ ret.value[1][3] = Null
    /\ ret.value[1][4].day = 1
    /\ ret.value[5][6].day = 31
    /\ ret.value[5][7] = Null

-----------------------------------------------------------------------------
(* The non-null cells of a grid *)
GridCells(grid) ==
    { grid[rc[1]][rc[2]] :
        rc \in { p \in (1..Len(grid)) \X (1..7) : grid[p[1]][p[2]] # Null } }

(* C19 as claimed: for every in-month cell, is_sunday is true exactly when  *)
(* the date is a Sunday; is_holiday and is_non_working are those of the     *)
(* payload of the date when it has one, and otherwise are computed by the   *)
(* working-day classifier (a fixed holiday or a Saturday without payload is *)
(* flagged); shifts is the payload's, or the empty mapping.                 *)
C19_FlagsFromPayloadOrClassifier ==
    ret.op = "getCalendarWeeks" =>
        \A cell \in GridCells(ret.value) :
            LET sd      == ret.schedule.schedule_data
                has     == cell.dateStr \in DOMAIN sd
                payload == sd[cell.dateStr]
            IN  /\ cell.is_sunday <=> Weekday(ret.year, ret.month, cell.day) = 0
                /\ (has /\ "is_holiday" \in DOMAIN payload)
                      => cell.is_holiday = payload.is_holiday
                /\ (has /\ "is_non_working" \in DOMAIN payload)
                      => cell.is_non_working = payload.is_non_working
                /\ ~has => /\ cell.is_holiday
                                 <=> <<ret.month, cell.day>> \in FixedHolidays
                           /\ cell.is_non_working
                                 <=> ~IsWorkingDate(ret.year, ret.month, cell.day,
                                                    company.sunday_is_workday)
                /\ cell.shifts = (IF has /\ "shifts" \in DOMAIN payload
                                  THEN payload.shifts ELSE {})

-----------------------------------------------------------------------------
(* C20 as claimed: the grid is a function of the year, the month and the    *)
(* schedule by date it is computed from: two invocations with these equal   *)
(* return equal grids whatever changed in between; is_today is true for at  *)
(* most one cell.                                                           *)
C20_GridIsFunctionOfArguments ==
    /\ ( /\ ret.op = "getCalendarWeeks"
         /\ "prev" \in DOMAIN ret
         /\ ret.prev.year = ret.year
         /\ ret.prev.month = ret.month
         /\ ret.prev.schedule = ret.schedule ) => ret.value = ret.prev.value
    /\ ret.op = "getCalendarWeeks" =>
          Cardinality({ cell \in GridCells(ret.value) : cell.is_today }) <= 1

-----------------------------------------------------------------------------
(* C21 as claimed: when an entry or an absence of the input carries a date  *)
(* that cannot be parsed, the computation returns no statistics (no count)  *)
(* for the rest but rejects the batch with the condition InvalidInput.      *)
IsParsable(iso) == iso.m \in 1..12 /\ iso.d \in 1..MonthLength(iso.y, iso.m)

C21_UnparsableDateRejectsBatch ==
    /\ ( /\ ret.op \in {"calculateEmployeeStatistics", "calculateYearlyStatistics"}
         /\ \/ \E i \in 1..Len(Data) : ~IsParsable(Data[i].date)
            \/ \E i \in 1..Len(AbsenceList) : ~IsParsable(AbsenceList[i]) )
          => ("raised" \in DOMAIN ret /\ ret.raised = "InvalidInput")
    /\ ( /\ ret.op \in {"getAbsencesInMonth", "getAbsencesInYear"}
         /\ \E i \in 1..Len(AbsenceList) : ~IsParsable(AbsenceList[i]) )
          => ("raised" \in DOMAIN ret /\ ret.raised = "InvalidInput")

-----------------------------------------------------------------------------
(* C22 as claimed: in the employee view, once no request is pending, the    *)
(* displayed employeeStats (when any are displayed) are the statistics of   *)
(* the response to the request for the currently selected year, month and   *)
(* algorithm, evaluated with that year and month; no earlier response has   *)
(* overwritten them or was evaluated with a later month.                    *)
CurrentStats ==
    calculateEmployeeStatistics(
        company, DefaultEmployee,
        ServerSchedule(currentYear(store), currentMonth(store), store.selectedAlgorithm),
        currentYear(store), currentMonth(store))

C22_DisplayedStatsAreCurrent ==
    ( /\ view.mounted /\ view.started
      /\ view.requests = << >>
      /\ view.employeeStats # NoStats )
    => view.employeeStats = CurrentStats

C22_StaleResponseShown ==
    /\ view.mounted /\ view.started
    /\ view.requests = << >>
    /\ view.employeeStats # NoStats
    /\ view.employeeStats # CurrentStats

-----------------------------------------------------------------------------
(* C23: a failed monthly request (the step that logs "Error loading employee *)
(* data:") leaves employeeData null, employeeSchedule [], employeeStats {}   *)
(* and weeklyWorkload [], whatever an earlier load had stored, and the error *)
(* is not propagated: the awaiting caller goes on to loadYearlyData; a       *)
(* failed yearly request leaves yearlyData null.                             *)
C23_FailedLoadResetsView ==
    [][ /\ view'.console = << "Error loading employee data:" >> =>
              /\ view'.employeeData = Null
              /\ view'.employeeSchedule = << >>
              /\ view'.employeeStats = NoStats
              /\ view'.weeklyWorkload = << >>
              /\ \E i \in 1..Len(view.requests) :
                    /\ view.requests[i].kind = "schedule"
                    /\ view'.requests = Continue(view.requests, i, store)
        /\ view'.console = << "Error loading yearly data:" >> =>
              view'.yearlyData = Null ]_vars

(* the monthly request of a later selection has just failed: the view shows *)
(* no monthly data beside the yearly data loaded before                     *)
C23_Witness ==
    /\ view.mounted /\ view.actions >= 1
    /\ view.console = << "Error loading employee data:" >>
    /\ view.employeeData = Null /\ view.employeeStats = NoStats
    /\ view.employeeSchedule = << >> /\ view.weeklyWorkload = << >>
    /\ view.yearlyData # Null

-----------------------------------------------------------------------------
(* C24: for every employee, year and Sunday-workday flag, when all absences *)
(* of the employee lie in that year, the expected monthly hours of months   *)
(* 1..12 add up (exactly) to the expected yearly hours.                     *)
AllAbsencesInYear == \A i \in 1..Len(AbsenceList) : AbsenceList[i].y = year

C24_MonthlyExpectedSumToYearly ==
    (ret.op = "expectedHoursOfYear" /\ AllAbsencesInYear)
        => SumHours(ret.monthly, Months) = ret.yearly

(* 2025, Sundays off, 20 h per week, absent on 31 January: 255 available    *)
(* working days, 5100/7 hours in the year and in the twelve months together *)
C24_Witness ==
    /\ ret.op = "expectedHoursOfYear"
    /\ year = 2025 /\ ~company.sunday_is_workday
    /\ employee = [max_hours_per_week |-> 20, absences |-> << Iso(2025, 1, 31) >>]
    /\ ret.yearly = [n |-> 5100, d |-> 7]
    /\ SumHours(ret.monthly, Months) = [n |-> 5100, d |-> 7]
    /\ ret.monthly[1] = RatMul(RatOfInt(21), Rat(20, 7))

-----------------------------------------------------------------------------
(* C25: for every year, month and entry list, each entry dated inside the   *)
(* target month passes the week filter of exactly one iteration of          *)
(* calculateWeeklyWorkload, no entry passes two, and when all entries lie   *)
(* in the month the unrounded week sums add up to total_hours; each pushed  *)
(* bucket is the rounded week sum.                                          *)
BucketsOf(i) == { k \in 1..Len(ret.locals) : i \in ret.locals[k].weekEntries }

C25_EachEntryInOneBucket ==
    (ret.op = "calculateWeeklyWorkload" /\ "locals" \in DOMAIN ret) =>
        /\ \A i \in 1..Len(Data) :
              /\ Cardinality(BucketsOf(i)) <= 1
              /\ i \in PositionsInMonth(Data, year, month) => Cardinality(BucketsOf(i)) = 1
        /\ PositionsInMonth(Data, year, month) = 1..Len(Data) =>
              SumHours([k \in 1..Len(ret.locals) |-> ret.locals[k].weekHours],
                       1..Len(ret.locals)) = ret.total_hours
        /\ ret.value = [k \in 1..Len(ret.locals) |-> ret.locals[k].pushed]
        /\ \A k \in 1..Len(ret.locals) :
              ret.locals[k].weekHours = HoursAt(Data, PositionsInWeek(Data, year, month, k))

(* June 2025: an entry of 8 h 20 min on Sunday 8 June (the end of the       *)
(* second week) and a night shift on Monday 9 June (the start of the third) *)
C25_Witness ==
    /\ ret.op = "calculateWeeklyWorkload" /\ "locals" \in DOMAIN ret
    /\ year = 2025 /\ month = 6
    /\ Len(scheduleData) = 2
    /\ scheduleData[1].date = Iso(2025, 6, 8) /\ scheduleData[2].date = Iso(2025, 6, 9)
    /\ Len(ret.locals) = 6
    /\ ret.locals[2].weekEntries = {1} /\ ret.locals[3].weekEntries = {2}
    /\ ret.locals[2].weekHours = Rat(25, 3) /\ ret.locals[3].weekHours = RatOfInt(8)
    /\ ret.total_hours = Rat(49, 3)

-----------------------------------------------------------------------------
(* C26: for every year from 2000 to 2100 and every month, the weekly        *)
(* workload has as many buckets as the calendar grid of the same month has  *)
(* rows, and the week of bucket k (from currentWeek to weekEnd) holds        *)
(* exactly the seven dates of grid row k.                                   *)
Midnight(n) == [day |-> n, ms |-> 0]

C26_BucketsMatchGridRows ==
    ret.op = "weeksOfMonth" =>
        /\ Len(ret.locals) = Len(ret.grid)
        /\ Len(ret.rows) = Len(ret.grid)
        /\ \A k \in 1..Len(ret.rows) :
              LET rowDates == { ret.rows[k][c].day : c \in 1..Len(ret.rows[k]) }
                  bucket   == ret.locals[k]
              IN  /\ Cardinality(rowDates) = 7
                  /\ Len(ret.grid[k]) = 7
                  /\ \A c \in 1..7 :
                        ret.grid[k][c] # Null => ret.grid[k][c].date = ret.rows[k][c]
                  /\ \A n \in (ret.rows[1][1].day - 8)..(ret.rows[1][1].day + 50) :
                        (DateLE(bucket.currentWeek, Midnight(n))
                           /\ DateLE(Midnight(n), bucket.weekEnd))
                        <=> n \in rowDates

(* March 2026 (begins on a Sunday, ends on a Tuesday): 6 buckets and 6 rows, *)
(* the first from Monday 23 February to Sunday 1 March                      *)
C26_Witness ==
    /\ ret.op = "weeksOfMonth"
    /\ currentYear(store) = 2026 /\ currentMonth(store) = 3
    /\ Len(ret.locals) = 6 /\ Len(ret.grid) = 6
    /\ format(ret.locals[1].currentWeek) = Iso(2026, 2, 23)
    /\ format(ret.locals[1].weekEnd) = Iso(2026, 3, 1)
    /\ format(ret.rows[1][1]) = Iso(2026, 2, 23)
    /\ format(ret.rows[6][7]) = Iso(2026, 4, 5)
    /\ ret.grid[1][7].day = 1

-----------------------------------------------------------------------------
(* C27 as claimed: the expected monthly and yearly hours are never          *)
(* negative, and an absence on a non-working day (a Saturday, an off        *)
(* Sunday, a holiday) does not reduce them: they are at least the hours of  *)
(* the working days less the absences that fall on working days.            *)
WorkingAbsencesInMonth(y, m) ==
    { i \in AbsencePositionsInMonth(y, m) :
        IsWorkingDate(y, m, AbsenceList[i].d, company.sunday_is_workday) }

WorkingAbsencesInYear(y) ==
    { i \in AbsencePositionsInYear(y) :
        IsWorkingDate(y, AbsenceList[i].m, AbsenceList[i].d, company.sunday_is_workday) }

C27_ExpectedHoursNotReducedOffDays ==
    /\ ret.op = "calculateExpectedMonthlyHours" =>
          /\ RatLE(Zero, ret.value)
          /\ RatLE(RatMul(RatOfInt(Cardinality(WorkingDatesOfMonth(
                                       year, month, company.sunday_is_workday))
                                     - Cardinality(WorkingAbsencesInMonth(year, month))),
                          Rat(employee.max_hours_per_week, 7)),
                   ret.value)
    /\ ret.op = "calculateExpectedYearlyHours" =>
          /\ RatLE(Zero, ret.value)
          /\ RatLE(RatMul(RatOfInt(Cardinality(WorkingDatesOfYear(
                                       year, company.sunday_is_workday))
                                     - Cardinality(WorkingAbsencesInYear(year))),
                          Rat(employee.max_hours_per_week, 7)),
                   ret.value)

-----------------------------------------------------------------------------
(* C28 as claimed: for every entry list, the empty one included,            *)
(* max_yearly_hours of calculateYearlyStatistics is the expected yearly     *)
(* hours of the employee: the working days of the year less the absences    *)
(* dated in it, times max_hours_per_week / 7.                               *)
ExpectedYearly ==
    RatMul(RatOfInt(Cardinality(WorkingDatesOfYear(year, company.sunday_is_workday))
                      - Cardinality(AbsencePositionsInYear(year))),
           Rat(employee.max_hours_per_week, 7))

C28_MaxYearlyHoursForEveryList ==
    ret.op = "calculateYearlyStatistics" => ret.value.max_yearly_hours = ExpectedYearly

(* C28 amended: for every non-empty entry list max_yearly_hours is the      *)
(* expected yearly hours of the employee, whatever the entries; for the     *)
(* empty or absent list it is 0.                                            *)
C28_MaxYearlyHoursUnlessEmpty ==
    ret.op = "calculateYearlyStatistics" =>
        /\ Len(Data) > 0 => ret.value.max_yearly_hours = ExpectedYearly
        /\ Len(Data) = 0 => ret.value.max_yearly_hours = Zero

(* an employee with absences in the year and one entry *)
C28_Witness ==
    /\ ret.op = "calculateYearlyStatistics"
    /\ Len(Data) = 1
    /\ Cardinality(AbsencePositionsInYear(year)) > 0
    /\ ret.value.max_yearly_hours = ExpectedYearly
    /\ ret.value.max_yearly_hours # Zero
    /\ ret.value.max_yearly_hours #
          RatMul(RatOfInt(Cardinality(WorkingDatesOfYear(year, company.sunday_is_workday))),
                 Rat(employee.max_hours_per_week, 7))

-----------------------------------------------------------------------------
(* C29 as claimed: for every interleaving of overlapping calls of the four  *)
(* loaders, loading is true whenever a request is in flight, and an error   *)
(* set by a failed request is cleared only when its own loader is started   *)
(* again, not by another request that starts or finishes.                   *)
InFlight(st) == st.pending + st.pendingDay + st.pendingEmployee + st.pendingYearly

C29_SharedFlagsUnderOverlap ==
    [][ /\ InFlight(store') > 0 => store'.loading
        /\ (store.error # Null /\ store'.error # store.error) =>
              \E loader \in Loaders :
                  /\ loader.message = store.error.message
                  /\ store'[loader.pending] # store[loader.pending] ]_vars

-----------------------------------------------------------------------------
(* C30 as claimed: when the request of an upload settles and no other is in *)
(* flight, the upload has ended: uploading is false, the progress timer is  *)
(* stopped, and exactly one of uploadComplete and a non-empty error holds;  *)
(* uploading and uploadComplete are never both true; a file whose name does *)
(* not end in ".zip" sets the error and starts no upload.                   *)
C30_UploadEnds ==
    [][ /\ ~(upload'.uploading /\ upload'.uploadComplete)
        /\ (upload'.pending < upload.pending /\ upload'.pending = 0) =>
              /\ ~upload'.uploading
              /\ upload'.intervals = 0
              /\ upload'.uploadComplete # (upload'.error # "")
        /\ (upload'.error = "Please select a ZIP file" /\ upload.error # upload'.error) =>
              /\ upload'.uploading = upload.uploading
              /\ upload'.pending = upload.pending ]_vars

====
